---------------------------- MODULE Spec2Model ----------------------------
(***************************************************************************)
(* Pool controller of the Docker auto-scaling load balancer                *)
(* (scaler/src/docker-load-balancer.ts, scaler/src/docker-manager.ts).     *)
(*                                                                         *)
(* The controller runs on one JavaScript event loop: the code between two  *)
(* awaits (or inside one event callback) runs without interleaving, so     *)
(* each action below is one such run-to-completion segment.                *)
(*                                                                         *)
(* Time is the value of Date.now() in milliseconds, relative to the start  *)
(* of the controller.  The model clock advances in steps of ClockStep; an  *)
(* elapsed time measured by the code is the clock difference plus a        *)
(* remainder below the clock's resolution, drawn from SubTick.             *)
(*                                                                         *)
(* Loads are kept in thousandths (getInstanceLoad * 1000) so that the      *)
(* arithmetic of the code stays exact over the integers.                   *)
(***************************************************************************)
EXTENDS Integers, Sequences, FiniteSets, TLC

(* ------------------------------ bounds --------------------------------- *)
\* number of spawnInstance() calls in one controller lifetime
MaxSpawn == 3
\* number of client requests in one controller lifetime
MaxReq == 3
\* number of clock steps during start-up
BootTicks == 1
\* number of clock steps while requests are proxied
ProxyTicks == 2
\* number of healthCheckAll() rounds that may be in progress at once
MaxRounds == 2
\* number of clock steps while the prober and the autoscaler run
ProbeTicks == 3
\* resolution of the model clock, in ms
ClockStep == 30000
\* the remainders (ms) of a measured latency that the clock does not resolve
SubTick == {0, 700}

(* --------------------------- configuration ----------------------------- *)
\* config.minInstances / config.maxInstances (small values of the YAML keys)
MinInstances == 1
MaxInstances == 2
\* config.scaleUpThreshold (default)
ScaleUpThreshold == 3
\* config.scaleDownThreshold (default 0.5), in thousandths
ScaleDownThresholdMilli == 500
\* config.idleTimeout (default)
IdleTimeout == 30000
\* SERVER_TIMEOUT
SERVER_TIMEOUT == 30000
\* waitForInstanceReady's maxWait
MaxWait == 30000
\* healthCheckAll's "unhealthy for too long" window
UnhealthyWindow == 60000
\* config.healthTimeout (default)
HealthTimeout == 2000
\* first port issued
BasePort == 5001
\* LoadBalancer (subprocess variant): waitForInstanceReady's maxWait and
\* shouldScaleUp's highLoadThreshold
SubMaxWait == 10000
SubHighLoadThreshold == 3

Ids == 1..MaxSpawn
Reqs == 1..MaxReq
Rounds == 1..MaxRounds

Max(a, b) == IF a >= b THEN a ELSE b

VARIABLES
    now,         \* Date.now()
    nextPort,    \* DockerLoadBalancer.nextPort
    issued,      \* history: the ports returned by getNextPort(), in order
    instances,   \* DockerLoadBalancer.instances: sequence of instance ids
    inst,        \* the DockerInstance objects, by id (status "none": not created)
    container,   \* the docker daemon's view of each instance's container
    spawn,       \* the spawnInstance() calls: their position and locals
    rem,         \* the removeContainer() calls in progress
    termCalls,   \* history: ids on which removeContainer() has been invoked
    hc,          \* the healthCheckAll() rounds in progress
    timers,      \* TRUE while healthCheckInterval / scaleCheckInterval are armed
    init,        \* position of initialize()
    sweep,       \* cleanupOrphanedContainers: listed containers not yet removed
    shutPc,      \* position of shutdown()
    shutSeen,    \* history: the pool when shutdown() was called
    pullPolicy,  \* config.pullPolicy
    asg,         \* the round-robin DockerASG object (AsgOff: not this program)
    pulled,      \* history: how pullImage()'s `docker pull` ended, "no": none
    req          \* the client requests and their upstream requests

vars == << now, nextPort, issued, instances, inst, container, spawn, rem,
           termCalls, hc, timers, init, sweep, shutPc, shutSeen, pullPolicy,
           pulled, asg, req >>

\* the value of `asg` in the programs that do not construct a DockerASG
AsgOff == [ alive |-> FALSE ]

(* --------------------------- DockerInstance ---------------------------- *)
NoInstance ==
    [ port |-> 0, lastHealth |-> 0, isHealthy |-> FALSE, activeRequests |-> 0,
      totalRequests |-> 0, lastRequestTime |-> 0, responseTime |-> 0,
      status |-> "none" ]

\* the object createContainer() returns
NewInstance(port) ==
    [ port |-> port, lastHealth |-> now, isHealthy |-> FALSE,
      activeRequests |-> 0, totalRequests |-> 0, lastRequestTime |-> now,
      responseTime |-> 0, status |-> "starting" ]

\* Array.prototype.indexOf / splice(index, 1) of removeInstance
Without(seq, i) == SelectSeq(seq, LAMBDA x : x # i)
InPool(i) == \E k \in 1..Len(instances) : instances[k] = i
PoolSet == { instances[k] : k \in 1..Len(instances) }

(* --------------------------- pure functions ---------------------------- *)
\* variant: the filter forgets the isHealthy flag
getRunningInstancesOf(pool, I) ==
    SelectSeq(pool, LAMBDA i : I[i].status = "running")

\* this.instances.filter((i) => i.isHealthy && i.status === "running")
IsHealthyRunning(r) == r.isHealthy /\ r.status = "running"
getHealthyInstancesOf(pool, I) ==
    SelectSeq(pool, LAMBDA i : IsHealthyRunning(I[i]))
getHealthyInstances == getHealthyInstancesOf(instances, inst)

\* variant: the latency is weighted per 100 ms instead of per second
getInstanceLoadSteep(r) ==
    r.activeRequests * 1000 + Max(0, (r.responseTime - 100) * 10)

\* requestLoad + Math.max(0, (responseTime - 100) / 1000), times 1000
getInstanceLoad(r) == r.activeRequests * 1000 + Max(0, r.responseTime - 100)

RECURSIVE SumLoad(_, _)
SumLoad(seq, I) ==
    IF seq = << >> THEN 0
    ELSE getInstanceLoad(I[Head(seq)]) + SumLoad(Tail(seq), I)

\* healthy.reduce((min, x) => load(x) < load(min) ? x : min)
RECURSIVE ReduceMin(_, _, _)
ReduceMin(min, seq, I) ==
    IF seq = << >> THEN min
    ELSE ReduceMin(IF getInstanceLoad(I[Head(seq)]) < getInstanceLoad(I[min])
                   THEN Head(seq) ELSE min,
                   Tail(seq), I)

\* variant: the reduce compares with <=, so the last of equal loads wins
RECURSIVE ReduceMinLe(_, _, _)
ReduceMinLe(min, seq, I) ==
    IF seq = << >> THEN min
    ELSE ReduceMinLe(IF getInstanceLoad(I[Head(seq)]) <= getInstanceLoad(I[min])
                     THEN Head(seq) ELSE min,
                     Tail(seq), I)
pickInstanceLastOf(pool, I) ==
    LET healthy == getHealthyInstancesOf(pool, I)
    IN  IF Len(healthy) = 0 THEN 0
        ELSE ReduceMinLe(Head(healthy), Tail(healthy), I)

\* pickInstance(): 0 stands for null
pickInstanceOf(pool, I) ==
    LET healthy == getHealthyInstancesOf(pool, I)
    IN  IF Len(healthy) = 0 THEN 0
        ELSE ReduceMin(Head(healthy), Tail(healthy), I)
pickInstance == pickInstanceOf(instances, inst)

\* variant: shouldScaleUp without the minInstances rule
shouldScaleUpLoadOnly ==
    LET healthy == getHealthyInstances
    IN  IF Len(healthy) >= MaxInstances THEN FALSE
        ELSE SumLoad(healthy, inst) > ScaleUpThreshold * 1000 * Len(healthy)

\* shouldScaleUp()
shouldScaleUp ==
    LET healthy == getHealthyInstances
    IN  IF Len(healthy) >= MaxInstances THEN FALSE
        ELSE IF Len(healthy) < MinInstances THEN TRUE
        ELSE SumLoad(healthy, inst) > ScaleUpThreshold * 1000 * Len(healthy)

\* variant: the floor test lets a pool of exactly minInstances shrink
shouldScaleDownAtMin ==
    LET healthy == getHealthyInstances
    IN  IF Len(healthy) < MinInstances THEN FALSE
        ELSE /\ SumLoad(healthy, inst) < ScaleDownThresholdMilli * Len(healthy)
             /\ \E k \in 1..Len(healthy) :
                    /\ now - inst[healthy[k]].lastRequestTime > IdleTimeout
                    /\ inst[healthy[k]].activeRequests = 0

shouldScaleDown ==
    LET healthy == getHealthyInstances
    IN  IF Len(healthy) <= MinInstances THEN FALSE
        ELSE /\ SumLoad(healthy, inst) < ScaleDownThresholdMilli * Len(healthy)
             /\ \E k \in 1..Len(healthy) :
                    /\ now - inst[healthy[k]].lastRequestTime > IdleTimeout
                    /\ inst[healthy[k]].activeRequests = 0

\* variant: among equal timestamps the last one of the array is taken
scaleDownCandidateLast ==
    LET idle == SelectSeq(getHealthyInstances,
                          LAMBDA i : inst[i].activeRequests = 0)
    IN  IF idle = << >> THEN 0
        ELSE idle[CHOOSE k \in 1..Len(idle) :
                    \A j \in 1..Len(idle) :
                        \/ inst[idle[k]].lastRequestTime
                             < inst[idle[j]].lastRequestTime
                        \/ /\ inst[idle[k]].lastRequestTime
                               = inst[idle[j]].lastRequestTime
                           /\ k >= j]

\* healthy.filter(active = 0).sort(by lastRequestTime)[0]; the sort is stable;
\* 0 stands for undefined
scaleDownCandidate ==
    LET idle == SelectSeq(getHealthyInstances,
                          LAMBDA i : inst[i].activeRequests = 0)
    IN  IF idle = << >> THEN 0
        ELSE idle[CHOOSE k \in 1..Len(idle) :
                    \A j \in 1..Len(idle) :
                        \/ inst[idle[k]].lastRequestTime
                             < inst[idle[j]].lastRequestTime
                        \/ /\ inst[idle[k]].lastRequestTime
                               = inst[idle[j]].lastRequestTime
                           /\ k <= j]

(* ------------------------------ Init ----------------------------------- *)
IdleSpawn == [ pc |-> "unused", port |-> 0, startTime |-> 0, own |-> "none" ]
IdleRound == [ pc |-> "idle", pending |-> {}, queue |-> << >> ]
NewReq    == [ st |-> "new", w |-> 0, t0 |-> 0, decs |-> 0, code |-> 0 ]

\* the state after `new DockerLoadBalancer(config)`: both timers are armed
PullPolicies == {"always", "missing", "never"}
InitWith(policy) ==
    /\ now = 0
    /\ nextPort = BasePort
    /\ issued = << >>
    /\ instances = << >>
    /\ inst = [ i \in Ids |-> NoInstance ]
    /\ container = [ i \in Ids |-> "none" ]
    /\ spawn = [ i \in Ids |-> IdleSpawn ]
    /\ rem = {}
    /\ termCalls = {}
    /\ hc = [ s \in Rounds |-> IdleRound ]
    /\ timers = TRUE
    /\ init = "new"
    /\ sweep = {}
    /\ shutPc = "running"
    /\ shutSeen = << >>
    /\ pullPolicy = policy
    /\ pulled = "no"
    /\ asg = AsgOff
    /\ req = [ r \in Reqs |-> NewReq ]

\* loadConfig(): pullPolicy defaults to "missing"
Init == InitWith("missing")

\* process.exit() has not been called
Alive == shutPc # "done" /\ init # "failed"

(* ------------------------ port allocation ------------------------------ *)
\* variant: the counter is read without being advanced
getNextPortStuck(p) == p
\* this.nextPort++ : the value of nextPort after one getNextPort()
getNextPort(p) == p + 1

UnusedIds == { i \in Ids : spawn[i].pc = "unused" }
\* the id the next spawnInstance() call gets in the model
FreshId == CHOOSE i \in UnusedIds : \A j \in UnusedIds : i <= j

\* spawnInstance() up to its first await: the port is taken and `docker run`
\* is started.  n calls in a row (n = 1 from autoScale, minInstances from
\* initialize) applied to the triple << spawn, nextPort, issued >>.
RECURSIVE spawnInstanceStart(_, _, _)
spawnInstanceStart(n, own, S) ==
    IF n = 0 THEN S
    ELSE LET free == { i \in Ids : S[1][i].pc = "unused" }
             k    == CHOOSE i \in free : \A j \in free : i <= j
         IN  spawnInstanceStart(n - 1, own,
                << [ S[1] EXCEPT ![k] = [ pc |-> "creating", port |-> S[2],
                                          startTime |-> 0, own |-> own ] ],
                   getNextPort(S[2]),
                   Append(S[3], S[2]) >>)

(* --------------------------- DockerManager ----------------------------- *)
\* a docker command on an instance's container can succeed only if the
\* daemon still has the container; it can always fail
Exists(i) == container[i] \in {"up", "exited"}

\* getContainerStatus(): `docker inspect` lower-cased, "not-found" on error
InspectResults(i) ==
    CASE container[i] = "up"     -> {"running", "created", "not-found"}
      [] container[i] = "exited" -> {"exited", "not-found"}
      [] OTHER                   -> {"not-found"}

\* variant: removeContainer is started with the instance left in the pool
removeInstanceKept(i, own, slot) ==
    /\ instances' = instances
    /\ termCalls' = termCalls \cup {i}
    /\ rem' = rem \cup { [ id |-> i, pc |-> "stop", own |-> own, slot |-> slot ] }

\* removeInstance(): leave the pool and start removeContainer (`docker stop`)
removeInstanceStart(i, own, slot) ==
    /\ instances' = Without(instances, i)
    /\ termCalls' = termCalls \cup {i}
    /\ rem' = rem \cup { [ id |-> i, pc |-> "stop", own |-> own, slot |-> slot ] }

(* --------------------------- spawnInstance ----------------------------- *)
\* `docker run` returned: createContainer resolves, the instance is pushed and
\* waitForInstanceReady runs up to its first getContainerStatus()
CreateOk(k) ==
    /\ Alive /\ spawn[k].pc = "creating"
    /\ container' = [ container EXCEPT ![k] = "up" ]
    /\ inst' = [ inst EXCEPT ![k] = NewInstance(spawn[k].port) ]
    /\ instances' = Append(instances, k)
    /\ spawn' = [ spawn EXCEPT ![k].pc = "inspect", ![k].startTime = now ]
    /\ UNCHANGED << now, nextPort, issued, rem, termCalls, hc, timers, init,
                    sweep, shutPc, shutSeen, pullPolicy, pulled, asg, req >>

\* variant: the instance is pushed before `docker run` is known to succeed
CreateFailPushed(k) ==
    /\ Alive /\ spawn[k].pc = "creating"
    /\ spawn' = [ spawn EXCEPT ![k].pc = "failed" ]
    /\ inst' = [ inst EXCEPT ![k] = NewInstance(spawn[k].port) ]
    /\ instances' = Append(instances, k)
    /\ UNCHANGED << now, nextPort, issued, container, rem, termCalls, hc,
                    timers, init, sweep, shutPc, shutSeen, pullPolicy, pulled, asg, req >>

\* variant: the error of a failed `docker run` is not caught by its caller
\* and takes the timers down with it
CreateFailUncaught(k) ==
    /\ Alive /\ spawn[k].pc = "creating"
    /\ spawn' = [ spawn EXCEPT ![k].pc = "failed" ]
    /\ timers' = FALSE
    /\ UNCHANGED << now, nextPort, issued, instances, inst, container, rem,
                    termCalls, hc, init, sweep, shutPc, shutSeen, pullPolicy, pulled, asg, req >>

\* `docker run` failed: createContainer and spawnInstance throw
CreateFail(k) ==
    /\ Alive /\ spawn[k].pc = "creating"
    /\ spawn' = [ spawn EXCEPT ![k].pc = "failed" ]
    /\ UNCHANGED << now, nextPort, issued, instances, inst, container, rem,
                    termCalls, hc, timers, init, sweep, shutPc, shutSeen, pullPolicy, pulled, asg, req >>

\* getContainerStatus() returned inside the warm-up loop
InspectDone(k) ==
    /\ Alive /\ spawn[k].pc = "inspect"
    /\ \E res \in InspectResults(k) :
          IF res = "running"
          THEN /\ inst' = [ inst EXCEPT ![k].status = "running" ]
               /\ spawn' = [ spawn EXCEPT ![k].pc = "probe" ]
          ELSE /\ inst' = inst
               /\ spawn' = [ spawn EXCEPT ![k].pc = "sleep" ]
    /\ UNCHANGED << now, nextPort, issued, instances, container, rem,
                    termCalls, hc, timers, init, sweep, shutPc, shutSeen, pullPolicy, pulled, asg, req >>

\* checkInstanceHealth(): the callbacks of http.get
ProbeLatencies == { j \in SubTick : j < HealthTimeout }
checkInstanceHealthOk(r, j) ==
    [ r EXCEPT !.lastHealth = now, !.isHealthy = TRUE, !.responseTime = j ]
\* variant: a failed probe also writes off the instance's open requests
checkInstanceHealthFailReset(r) ==
    [ r EXCEPT !.isHealthy = FALSE, !.activeRequests = 0 ]
checkInstanceHealthFail(r) == [ r EXCEPT !.isHealthy = FALSE ]

\* the warm-up probe answered 200: waitForInstanceReady returns
WarmProbeOk(k) ==
    /\ Alive /\ spawn[k].pc = "probe" /\ container[k] = "up"
    /\ \E j \in ProbeLatencies :
          inst' = [ inst EXCEPT ![k] = checkInstanceHealthOk(inst[k], j) ]
    /\ spawn' = [ spawn EXCEPT ![k].pc = "done" ]
    /\ UNCHANGED << now, nextPort, issued, instances, container, rem,
                    termCalls, hc, timers, init, sweep, shutPc, shutSeen, pullPolicy, pulled, asg, req >>

\* the warm-up probe failed (non-200, error, timeout): caught, sleep 1 s
WarmProbeFail(k) ==
    /\ Alive /\ spawn[k].pc = "probe"
    /\ inst' = [ inst EXCEPT ![k] = checkInstanceHealthFail(inst[k]) ]
    /\ spawn' = [ spawn EXCEPT ![k].pc = "sleep" ]
    /\ UNCHANGED << now, nextPort, issued, instances, container, rem,
                    termCalls, hc, timers, init, sweep, shutPc, shutSeen, pullPolicy, pulled, asg, req >>

\* the 1 s sleep ended: next loop iteration, or give up and remove
WarmSleepDone(k) ==
    /\ Alive /\ spawn[k].pc = "sleep"
    /\ IF now - spawn[k].startTime < MaxWait
       THEN /\ spawn' = [ spawn EXCEPT ![k].pc = "inspect" ]
            /\ UNCHANGED << instances, rem, termCalls >>
       ELSE /\ spawn' = [ spawn EXCEPT ![k].pc = "removing" ]
            /\ removeInstanceStart(k, "warmup", 0)
    /\ UNCHANGED << now, nextPort, issued, inst, container, hc, timers, init,
                    sweep, shutPc, shutSeen, pullPolicy, pulled, asg, req >>

(* -------------------------- removeContainer ---------------------------- *)
\* removeContainer() returned to its caller t.own: waitForInstanceReady
\* throws, healthCheckAll's loop removes its next instance, shutdown's
\* allSettled may resolve.  I2, C2: the instance objects and containers as
\* the last docker command left them.
RemFinish(t, I2, C2) ==
    /\ inst' = I2
    /\ container' = C2
    /\ spawn' = IF t.own = "warmup"
                THEN [ spawn EXCEPT ![t.id].pc = "failed" ] ELSE spawn
    /\ shutPc' = IF t.own = "shutdown"
                    /\ \A u \in rem : u.own = "shutdown" => u = t
                 THEN "done" ELSE shutPc
    /\ IF t.own = "evict" /\ hc[t.slot].queue # << >>
       THEN /\ hc' = [ hc EXCEPT ![t.slot].queue = Tail(@) ]
            /\ instances' = Without(instances, Head(hc[t.slot].queue))
            /\ termCalls' = termCalls \cup { Head(hc[t.slot].queue) }
            /\ rem' = (rem \ {t}) \cup
                      { [ id |-> Head(hc[t.slot].queue), pc |-> "stop",
                          own |-> "evict", slot |-> t.slot ] }
       ELSE /\ hc' = IF t.own = "evict"
                     THEN [ hc EXCEPT ![t.slot] = IdleRound ] ELSE hc
            /\ rem' = rem \ {t}
            /\ UNCHANGED << instances, termCalls >>
    /\ UNCHANGED << now, nextPort, issued, timers, init, sweep, shutSeen, pullPolicy, pulled, asg, req >>

RemStep(t, pc, I2, C2) ==
    /\ inst' = I2
    /\ container' = C2
    /\ rem' = (rem \ {t}) \cup { [ t EXCEPT !.pc = pc ] }
    /\ UNCHANGED << now, nextPort, issued, instances, spawn, termCalls, hc,
                    timers, init, sweep, shutPc, shutSeen, pullPolicy, pulled, asg, req >>

\* `docker stop` succeeded: status = "stopping", `docker rm` is started
RemStopOk(t) ==
    /\ Alive /\ t.pc = "stop" /\ Exists(t.id)
    /\ RemStep(t, "rm", [ inst EXCEPT ![t.id].status = "stopping" ],
               [ container EXCEPT ![t.id] = "exited" ])

\* variant: a failed `docker stop` ends removeContainer without `rm -f`
RemStopFailGiveUp(t) ==
    /\ Alive /\ t.pc = "stop"
    /\ RemFinish(t, inst, container)

\* `docker stop` failed: the catch block starts `docker rm -f`
RemStopFail(t) ==
    /\ Alive /\ t.pc = "stop"
    /\ RemStep(t, "force", inst, container)

\* `docker rm` succeeded: status = "stopped", removeContainer returns
RemRmOk(t) ==
    /\ Alive /\ t.pc = "rm" /\ container[t.id] = "exited"
    /\ RemFinish(t, [ inst EXCEPT ![t.id].status = "stopped" ],
                 [ container EXCEPT ![t.id] = "gone" ])

\* `docker rm` failed: the catch block starts `docker rm -f`
RemRmFail(t) ==
    /\ Alive /\ t.pc = "rm"
    /\ RemStep(t, "force", inst, container)

\* `docker rm -f` succeeded, or failed and was logged: removeContainer returns
RemForceOk(t) ==
    /\ Alive /\ t.pc = "force" /\ Exists(t.id)
    /\ RemFinish(t, inst, [ container EXCEPT ![t.id] = "gone" ])

RemForceFail(t) ==
    /\ Alive /\ t.pc = "force"
    /\ RemFinish(t, inst, container)

(* --------------------------- healthCheckAll ---------------------------- *)
FreeRounds == { s \in Rounds : hc[s].pc = "idle" }

\* a tick of healthCheckInterval: one probe per instance of the pool
HealthCheckStart(s) ==
    /\ Alive /\ timers /\ instances # << >>
    /\ s \in FreeRounds /\ \A u \in FreeRounds : s <= u
    /\ hc' = [ hc EXCEPT ![s] = [ pc |-> "probing", pending |-> PoolSet,
                                   queue |-> << >> ] ]
    /\ UNCHANGED << now, nextPort, issued, instances, inst, container, spawn,
                    rem, termCalls, timers, init, sweep, shutPc, shutSeen, pullPolicy, pulled, asg, req >>

\* this.instances.filter((i) => !i.isHealthy && now - i.lastHealth > 60000)
unhealthyInstances(I) ==
    SelectSeq(instances,
              LAMBDA i : ~I[i].isHealthy /\ now - I[i].lastHealth > UnhealthyWindow)

\* one probe of round s settled, leaving the instance objects I2; when it is
\* the last one, allSettled resolves and the eviction loop removes its first
\* instance
ProbeSettled(s, i, I2) ==
    /\ inst' = I2
    /\ IF hc[s].pending = {i}
       THEN LET bad == unhealthyInstances(I2)
            IN  IF bad = << >>
                THEN /\ hc' = [ hc EXCEPT ![s] = IdleRound ]
                     /\ UNCHANGED << instances, rem, termCalls >>
                ELSE /\ hc' = [ hc EXCEPT ![s] = [ pc |-> "evicting",
                                    pending |-> {}, queue |-> Tail(bad) ] ]
                     /\ removeInstanceStart(Head(bad), "evict", s)
       ELSE /\ hc' = [ hc EXCEPT ![s].pending = @ \ {i} ]
            /\ UNCHANGED << instances, rem, termCalls >>
    /\ UNCHANGED << now, nextPort, issued, container, spawn, timers, init,
                    sweep, shutPc, shutSeen, pullPolicy, pulled, asg, req >>

HealthProbeOk(s, i) ==
    /\ Alive /\ hc[s].pc = "probing" /\ i \in hc[s].pending
    /\ container[i] = "up"
    /\ \E j \in ProbeLatencies :
          ProbeSettled(s, i, [ inst EXCEPT ![i] = checkInstanceHealthOk(inst[i], j) ])

HealthProbeFail(s, i) ==
    /\ Alive /\ hc[s].pc = "probing" /\ i \in hc[s].pending
    /\ ProbeSettled(s, i, [ inst EXCEPT ![i] = checkInstanceHealthFail(inst[i]) ])

(* ------------------------------ autoScale ------------------------------ *)
\* variant: a tick that calls spawnInstance() twice
ScaleUpTwice ==
    /\ Alive /\ timers /\ shouldScaleUp
    /\ Cardinality(UnusedIds) >= 2
    /\ LET S == spawnInstanceStart(2, "scale", << spawn, nextPort, issued >>)
       IN  /\ spawn' = S[1]
           /\ nextPort' = S[2]
           /\ issued' = S[3]
    /\ UNCHANGED << now, instances, inst, container, rem, termCalls, hc,
                    timers, init, sweep, shutPc, shutSeen, pullPolicy, pulled, asg, req >>

\* a tick of scaleCheckInterval in which shouldScaleUp() holds
ScaleUp ==
    /\ Alive /\ timers /\ shouldScaleUp
    /\ UnusedIds # {}
    /\ LET S == spawnInstanceStart(1, "scale", << spawn, nextPort, issued >>)
       IN  /\ spawn' = S[1]
           /\ nextPort' = S[2]
           /\ issued' = S[3]
    /\ UNCHANGED << now, instances, inst, container, rem, termCalls, hc,
                    timers, init, sweep, shutPc, shutSeen, pullPolicy, pulled, asg, req >>

\* a tick in which shouldScaleUp() fails and shouldScaleDown() holds
ScaleDown ==
    /\ Alive /\ timers /\ ~shouldScaleUp /\ shouldScaleDown
    /\ scaleDownCandidate # 0
    /\ removeInstanceStart(scaleDownCandidate, "scale", 0)
    /\ UNCHANGED << now, nextPort, issued, inst, container, spawn, hc, timers,
                    init, sweep, shutPc, shutSeen, pullPolicy, pulled, asg, req >>

(* ------------------------------ initialize ----------------------------- *)
\* initialize() is called: cleanupOrphanedContainers starts `docker ps`
InitStart ==
    /\ Alive /\ init = "new"
    /\ init' = "listing"
    /\ UNCHANGED << now, nextPort, issued, instances, inst, container, spawn,
                    rem, termCalls, hc, timers, sweep, shutPc, shutSeen, pullPolicy, pulled, asg, req >>

\* pullImage(): `if (this.config.pullPolicy === "never") return`
pullImageSkips(policy) == policy = "never"

\* variant: the catch block of pullImage() never rethrows
pullImageLenient(policy) == FALSE

\* pullImage(): `if (this.config.pullPolicy === "always") throw error`
pullImageThrows(policy) == policy = "always"

\* initialize(): the minInstances spawnInstance() calls, made in a row
spawnInitial ==
    /\ Cardinality(UnusedIds) >= MinInstances
    /\ LET S == spawnInstanceStart(MinInstances, "init",
                                   << spawn, nextPort, issued >>)
       IN  /\ spawn' = S[1]
           /\ nextPort' = S[2]
           /\ issued' = S[3]
    /\ init' = "waiting"

\* cleanupOrphanedContainers() returned: pullImage() starts `docker pull`,
\* or returns at once and the initial instances are spawned
cleanupDone ==
    IF pullImageSkips(pullPolicy)
    THEN spawnInitial
    ELSE /\ init' = "pulling"
         /\ UNCHANGED << spawn, nextPort, issued >>

\* `docker ps` listed the containers carrying the prefix; the first
\* `docker rm -f` is started, or cleanup is over when there is none
InitListed ==
    /\ Alive /\ init = "listing"
    /\ sweep' = { i \in Ids : Exists(i) }
    /\ IF sweep' = {} THEN cleanupDone
       ELSE /\ init' = "sweeping"
            /\ UNCHANGED << spawn, nextPort, issued >>
    /\ UNCHANGED << now, instances, inst, container, rem, termCalls, hc,
                    timers, shutPc, shutSeen, pullPolicy, pulled, asg, req >>

\* one `docker rm -f <name>` of the sweep succeeded
InitSweepOk(i) ==
    /\ Alive /\ init = "sweeping" /\ i \in sweep /\ \A j \in sweep : i <= j
    /\ Exists(i)
    /\ container' = [ container EXCEPT ![i] = "gone" ]
    /\ sweep' = sweep \ {i}
    /\ IF sweep' = {} THEN cleanupDone
       ELSE /\ init' = "sweeping"
            /\ UNCHANGED << spawn, nextPort, issued >>
    /\ UNCHANGED << now, instances, inst, rem, termCalls, hc, timers, shutPc,
                    shutSeen, pullPolicy, pulled, asg, req >>

\* one `docker rm -f <name>` failed: the catch block ends the sweep
InitSweepFail ==
    /\ Alive /\ init = "sweeping"
    /\ sweep' = {}
    /\ cleanupDone
    /\ UNCHANGED << now, instances, inst, container, rem, termCalls, hc,
                    timers, shutPc, shutSeen, pullPolicy, pulled, asg, req >>

\* `docker pull` succeeded: pullImage() returns and the initial instances
\* are spawned
InitSpawn ==
    /\ Alive /\ init = "pulling"
    /\ pulled' = "ok"
    /\ spawnInitial
    /\ UNCHANGED << now, instances, inst, container, rem, termCalls, hc,
                    timers, sweep, shutPc, shutSeen, pullPolicy, asg, req >>

\* `docker pull` failed: pullImage() rethrows under "always", initialize()
\* rejects and the listen callback calls process.exit(1); otherwise the
\* failure is logged and the initial instances are spawned
InitPullFail ==
    /\ Alive /\ init = "pulling"
    /\ pulled' = "failed"
    /\ IF pullImageThrows(pullPolicy)
       THEN /\ init' = "failed"
            /\ UNCHANGED << spawn, nextPort, issued >>
       ELSE spawnInitial
    /\ UNCHANGED << now, instances, inst, container, rem, termCalls, hc,
                    timers, sweep, shutPc, shutSeen, pullPolicy, asg, req >>

\* Promise.allSettled(spawnPromises) resolved
InitReady ==
    /\ Alive /\ init = "waiting"
    /\ \A i \in Ids : spawn[i].own = "init" => spawn[i].pc \in {"done", "failed"}
    /\ init' = "ready"
    /\ UNCHANGED << now, nextPort, issued, instances, inst, container, spawn,
                    rem, termCalls, hc, timers, sweep, shutPc, shutSeen, pullPolicy, pulled, asg, req >>

(* ------------------------------- shutdown ------------------------------ *)
\* this.instances.map((instance) => this.removeInstance(instance)): map
\* visits index k of the array as it is at that moment, and removeInstance
\* splices the array before map goes on.  Returns << array, visited >>.
RECURSIVE shutdownMap(_, _, _, _)
shutdownMap(arr, k, n, visited) ==
    IF k > n THEN << arr, visited >>
    ELSE IF k <= Len(arr)
         THEN shutdownMap(Without(arr, arr[k]), k + 1, n, Append(visited, arr[k]))
         ELSE shutdownMap(arr, k + 1, n, visited)

\* variant: shutdown() without the two clearInterval calls
ShutdownTimersLeft ==
    /\ Alive /\ shutPc = "running"
    /\ timers' = timers
    /\ shutSeen' = instances
    /\ LET M == shutdownMap(instances, 1, Len(instances), << >>)
           V == { M[2][k] : k \in 1..Len(M[2]) }
       IN  /\ instances' = M[1]
           /\ termCalls' = termCalls \cup V
           /\ rem' = rem \cup { [ id |-> i, pc |-> "stop", own |-> "shutdown",
                                  slot |-> 0 ] : i \in V }
           /\ shutPc' = IF V = {} THEN "done" ELSE "stopping"
    /\ UNCHANGED << now, nextPort, issued, inst, container, spawn, hc, init,
                    sweep, pullPolicy, pulled, asg, req >>

\* SIGINT / SIGTERM: shutdown() up to `await Promise.allSettled`
Shutdown ==
    /\ Alive /\ shutPc = "running"
    /\ timers' = FALSE
    /\ shutSeen' = instances
    /\ LET M == shutdownMap(instances, 1, Len(instances), << >>)
           V == { M[2][k] : k \in 1..Len(M[2]) }
       IN  /\ instances' = M[1]
           /\ termCalls' = termCalls \cup V
           /\ rem' = rem \cup { [ id |-> i, pc |-> "stop", own |-> "shutdown",
                                  slot |-> 0 ] : i \in V }
           /\ shutPc' = IF V = {} THEN "done" ELSE "stopping"
    /\ UNCHANGED << now, nextPort, issued, inst, container, spawn, hc, init,
                    sweep, pullPolicy, pulled, asg, req >>

(* ----------------------------- handleRequest --------------------------- *)
\* variants: a decrement without Math.max, an increment that is lost
decrementUnsaturated(a) == a - 1
incrementLost(a) == a
\* Math.max(0, instance.activeRequests - 1)
decrement(a) == Max(0, a - 1)
\* activeRequests++
increment(a) == a + 1

NewReqs == { r \in Reqs : req[r].st = "new" }

\* variant: handleRequest without `instance.totalRequests++`
DispatchUncounted(r) ==
    /\ Alive /\ r \in NewReqs /\ \A q \in NewReqs : r <= q
    /\ LET w == pickInstance
       IN  IF w = 0
           THEN /\ req' = [ req EXCEPT ![r].st = "closed", ![r].code = 503 ]
                /\ inst' = inst
           ELSE /\ req' = [ req EXCEPT ![r].st = "waiting", ![r].w = w,
                                       ![r].t0 = now ]
                /\ inst' = [ inst EXCEPT
                               ![w].activeRequests = increment(@),
                               ![w].lastRequestTime = now ]
    /\ UNCHANGED << now, nextPort, issued, instances, container, spawn, rem,
                    termCalls, hc, timers, init, sweep, shutPc, shutSeen, pullPolicy, pulled, asg >>

\* a client request arrives: pickInstance, 503 or the counters and http.request
Dispatch(r) ==
    /\ Alive /\ r \in NewReqs /\ \A q \in NewReqs : r <= q
    /\ LET w == pickInstance
       IN  IF w = 0
           THEN /\ req' = [ req EXCEPT ![r].st = "closed", ![r].code = 503 ]
                /\ inst' = inst
           ELSE /\ req' = [ req EXCEPT ![r].st = "waiting", ![r].w = w,
                                       ![r].t0 = now ]
                /\ inst' = [ inst EXCEPT
                               ![w].activeRequests = increment(@),
                               ![w].totalRequests = @ + 1,
                               ![w].lastRequestTime = now ]
    /\ UNCHANGED << now, nextPort, issued, instances, container, spawn, rem,
                    termCalls, hc, timers, init, sweep, shutPc, shutSeen, pullPolicy, pulled, asg >>

\* the upstream's response headers arrived: res.writeHead, pipe
ResponseHeaders(r) ==
    /\ Alive /\ req[r].st = "waiting" /\ container[req[r].w] = "up"
    /\ req' = [ req EXCEPT ![r].st = "streaming", ![r].code = 200 ]
    /\ UNCHANGED << now, nextPort, issued, instances, inst, container, spawn,
                    rem, termCalls, hc, timers, init, sweep, shutPc, shutSeen, pullPolicy, pulled, asg >>

\* variant: "end" folds the sample into a running average
ResponseEndAveraged(r) ==
    /\ Alive /\ req[r].st = "streaming"
    /\ \E j \in SubTick :
          inst' = [ inst EXCEPT
                      ![req[r].w].activeRequests = decrement(@),
                      ![req[r].w].responseTime = (@ + now - req[r].t0 + j) \div 2 ]
    /\ req' = [ req EXCEPT ![r].st = "closed", ![r].decs = @ + 1 ]
    /\ UNCHANGED << now, nextPort, issued, instances, container, spawn, rem,
                    termCalls, hc, timers, init, sweep, shutPc, shutSeen, pullPolicy, pulled, asg >>

\* proxyRes "end"
ResponseEnd(r) ==
    /\ Alive /\ req[r].st = "streaming"
    /\ \E j \in SubTick :
          inst' = [ inst EXCEPT
                      ![req[r].w].activeRequests = decrement(@),
                      ![req[r].w].responseTime = now - req[r].t0 + j ]
    /\ req' = [ req EXCEPT ![r].st = "closed", ![r].decs = @ + 1 ]
    /\ UNCHANGED << now, nextPort, issued, instances, container, spawn, rem,
                    termCalls, hc, timers, init, sweep, shutPc, shutSeen, pullPolicy, pulled, asg >>

\* variant: the "error" handler answers 502 without looking at headersSent
ProxyErrorAlways502(r) ==
    /\ Alive /\ req[r].st \in {"waiting", "streaming", "destroyed"}
    /\ inst' = [ inst EXCEPT ![req[r].w].activeRequests = decrement(@) ]
    /\ req' = [ req EXCEPT ![r].st = "closed", ![r].decs = @ + 1,
                           ![r].code = 502 ]
    /\ UNCHANGED << now, nextPort, issued, instances, container, spawn, rem,
                    termCalls, hc, timers, init, sweep, shutPc, shutSeen, pullPolicy, pulled, asg >>

\* proxyReq "error": a connect or socket error while waiting for the response
\* or while the body streams, or the "socket hang up" that follows
\* proxyReq.destroy() when no response had arrived ("destroyed")
ProxyError(r) ==
    /\ Alive /\ req[r].st \in {"waiting", "streaming", "destroyed"}
    /\ inst' = [ inst EXCEPT ![req[r].w].activeRequests = decrement(@) ]
    /\ req' = [ req EXCEPT ![r].st = "closed", ![r].decs = @ + 1,
                           ![r].code = IF @ = 0 THEN 502 ELSE @ ]
    /\ UNCHANGED << now, nextPort, issued, instances, container, spawn, rem,
                    termCalls, hc, timers, init, sweep, shutPc, shutSeen, pullPolicy, pulled, asg >>

\* proxyReq "timeout" (30 s without socket activity): destroy, decrement, 504.
\* Without a response the destroyed request goes on to emit "error"; with one,
\* the response is aborted and the request only closes.
ProxyTimeout(r) ==
    /\ Alive /\ req[r].st \in {"waiting", "streaming"}
    /\ now - req[r].t0 >= SERVER_TIMEOUT
    /\ inst' = [ inst EXCEPT ![req[r].w].activeRequests = decrement(@) ]
    /\ req' = [ req EXCEPT
                  ![r].st = IF @ = "waiting" THEN "destroyed" ELSE "closed",
                  ![r].decs = @ + 1,
                  ![r].code = IF @ = 0 THEN 504 ELSE @ ]
    /\ UNCHANGED << now, nextPort, issued, instances, container, spawn, rem,
                    termCalls, hc, timers, init, sweep, shutPc, shutSeen, pullPolicy, pulled, asg >>

\* the upstream closed the connection in the middle of the body: proxyRes is
\* aborted, neither proxyRes "end" nor proxyReq "error" is emitted
ResponseAborted(r) ==
    /\ Alive /\ req[r].st = "streaming"
    /\ req' = [ req EXCEPT ![r].st = "closed" ]
    /\ UNCHANGED << now, nextPort, issued, instances, inst, container, spawn,
                    rem, termCalls, hc, timers, init, sweep, shutPc, shutSeen, pullPolicy, pulled, asg >>

(* -------------------------------- clock -------------------------------- *)
\* time passes; n caps the number of clock steps of a behaviour. A request
\* still without a response when its socket timeout is due gets the
\* "timeout" (or an "error") event before the clock moves on.
Tick(n) ==
    /\ Alive /\ now < n * ClockStep
    /\ \A r \in Reqs : req[r].st = "waiting" => now - req[r].t0 < SERVER_TIMEOUT
    /\ now' = now + ClockStep
    /\ UNCHANGED << nextPort, issued, instances, inst, container, spawn, rem,
                    termCalls, hc, timers, init, sweep, shutPc, shutSeen, pullPolicy, pulled, asg, req >>

(* ------------------------------- steps --------------------------------- *)
SpawnStep ==
    \E k \in Ids : \/ CreateOk(k) \/ CreateFail(k) \/ InspectDone(k)
                   \/ WarmProbeOk(k) \/ WarmProbeFail(k) \/ WarmSleepDone(k)
RemoveStep ==
    \E t \in rem : \/ RemStopOk(t) \/ RemStopFail(t) \/ RemRmOk(t)
                   \/ RemRmFail(t) \/ RemForceOk(t) \/ RemForceFail(t)
ProbeStep ==
    \E s \in Rounds : \/ HealthCheckStart(s)
                      \/ \E i \in Ids : HealthProbeOk(s, i) \/ HealthProbeFail(s, i)
InitStep ==
    \/ InitStart \/ InitListed \/ InitSweepFail \/ InitSpawn \/ InitPullFail
    \/ InitReady
    \/ \E i \in Ids : InitSweepOk(i)
ProxyStep ==
    \E r \in Reqs : \/ Dispatch(r) \/ ResponseHeaders(r) \/ ResponseEnd(r)
                    \/ ProxyError(r) \/ ProxyTimeout(r) \/ ResponseAborted(r)

(* ------------------- LoadBalancer (subprocess variant) ----------------- *)
\* The variant that runs its workers as child processes keeps the same
\* fields; container[i] is the state of the child process, termCalls the
\* instances killInstance() was called on, and an instance has no status.
NewSubInstance(port) ==
    [ port |-> port, lastHealth |-> now, isHealthy |-> FALSE,
      activeRequests |-> 0, totalRequests |-> 0, lastRequestTime |-> now,
      responseTime |-> 0, status |-> "process" ]

\* this.instances.filter((i) => i.isHealthy)
SubHealthy == SelectSeq(instances, LAMBDA i : inst[i].isHealthy)

SubShouldScaleUp ==
    LET healthy == SubHealthy
    IN  IF Len(healthy) >= MaxInstances THEN FALSE
        ELSE IF Len(healthy) < MinInstances THEN TRUE
        ELSE SumLoad(healthy, inst) > SubHighLoadThreshold * 1000 * Len(healthy)

\* n spawnInstance() calls in a row: port, child process, push, and
\* waitForInstanceReady up to its first probe
SubSpawn(n, own) ==
    LET S == spawnInstanceStart(n, own, << spawn, nextPort, issued >>)
        new == { i \in Ids : spawn[i].pc = "unused" /\ S[1][i].pc # "unused" }
        RECURSIVE Asc(_)
        Asc(K) == IF K = {} THEN << >>
                  ELSE LET m == CHOOSE x \in K : \A y \in K : x <= y
                       IN  << m >> \o Asc(K \ {m})
    IN  /\ spawn' = [ i \in Ids |->
                      IF i \in new
                      THEN [ S[1][i] EXCEPT !.pc = "probe", !.startTime = now ]
                      ELSE spawn[i] ]
        /\ nextPort' = S[2]
        /\ issued' = S[3]
        /\ inst' = [ i \in Ids |->
                     IF i \in new THEN NewSubInstance(S[1][i].port) ELSE inst[i] ]
        /\ container' = [ i \in Ids |-> IF i \in new THEN "up" ELSE container[i] ]
        /\ instances' = instances \o Asc(new)

\* a tick of scaleCheckInterval in which shouldScaleUp() holds
SubScaleUp ==
    /\ Alive /\ timers /\ SubShouldScaleUp
    /\ UnusedIds # {}
    /\ SubSpawn(1, "scale")
    /\ UNCHANGED << now, rem, termCalls, hc, timers, init, sweep, shutPc,
                    shutSeen, pullPolicy, pulled, asg, req >>

\* initialize(): minInstances spawnInstance() calls
SubInitialize ==
    /\ Alive /\ init = "new"
    /\ Cardinality(UnusedIds) >= MinInstances
    /\ SubSpawn(MinInstances, "init")
    /\ init' = "waiting"
    /\ UNCHANGED << now, rem, termCalls, hc, timers, sweep, shutPc, shutSeen, pullPolicy, pulled, asg,
                    req >>

\* Promise.allSettled(spawnPromises) resolved
SubInitReady ==
    /\ Alive /\ init = "waiting"
    /\ \A i \in Ids : spawn[i].own = "init" => spawn[i].pc \in {"done", "gaveup"}
    /\ init' = "ready"
    /\ UNCHANGED << now, nextPort, issued, instances, inst, container, spawn,
                    rem, termCalls, hc, timers, sweep, shutPc, shutSeen, pullPolicy, pulled, asg, req >>

\* the warm-up probe answered 200: waitForInstanceReady returns
SubProbeOk(k) ==
    /\ Alive /\ spawn[k].pc = "probe" /\ container[k] = "up"
    /\ \E j \in ProbeLatencies :
          inst' = [ inst EXCEPT ![k] = checkInstanceHealthOk(inst[k], j) ]
    /\ spawn' = [ spawn EXCEPT ![k].pc = "done" ]
    /\ UNCHANGED << now, nextPort, issued, instances, container, rem,
                    termCalls, hc, timers, init, sweep, shutPc, shutSeen, pullPolicy, pulled, asg, req >>

\* the warm-up probe failed: caught, sleep 100 ms
SubProbeFail(k) ==
    /\ Alive /\ spawn[k].pc = "probe"
    /\ inst' = [ inst EXCEPT ![k] = checkInstanceHealthFail(inst[k]) ]
    /\ spawn' = [ spawn EXCEPT ![k].pc = "sleep" ]
    /\ UNCHANGED << now, nextPort, issued, instances, container, rem,
                    termCalls, hc, timers, init, sweep, shutPc, shutSeen, pullPolicy, pulled, asg, req >>

\* the sleep ended: probe again, or give up: removeInstance() splices the
\* pool and waitForInstanceReady returns
SubSleepDone(k) ==
    /\ Alive /\ spawn[k].pc = "sleep"
    /\ IF now - spawn[k].startTime < SubMaxWait
       THEN /\ spawn' = [ spawn EXCEPT ![k].pc = "probe" ]
            /\ instances' = instances
       ELSE /\ spawn' = [ spawn EXCEPT ![k].pc = "gaveup" ]
            /\ instances' = Without(instances, k)
    /\ UNCHANGED << now, nextPort, issued, inst, container, rem, termCalls,
                    hc, timers, init, sweep, shutPc, shutSeen, pullPolicy, pulled, asg, req >>

\* the child process ended: its "exit" handler calls removeInstance()
SubProcExit(k) ==
    /\ Alive /\ container[k] = "up"
    /\ container' = [ container EXCEPT ![k] = "exited" ]
    /\ instances' = Without(instances, k)
    /\ UNCHANGED << now, nextPort, issued, inst, spawn, rem, termCalls, hc,
                    timers, init, sweep, shutPc, shutSeen, pullPolicy, pulled, asg, req >>

(* ---------------------------- specifications --------------------------- *)
\* Start-up and growth of the pool: the constructor has armed the timers,
\* initialize() runs, autoScale() ticks may fire at any moment, spawned
\* instances warm up or fail to, and failed ones are removed.
Next ==
    \/ InitStep \/ SpawnStep \/ ScaleUp \/ RemoveStep \/ Tick(BootTicks)

Spec == Init /\ [][Next]_vars

\* A controller that has been running: n instances were spawned and warmed
\* up at time 0, and those of H are healthy at the moment.
RunningPool(n, H) ==
    /\ now = 0
    /\ nextPort = BasePort + n
    /\ issued = [ k \in 1..n |-> BasePort + k - 1 ]
    /\ instances = [ k \in 1..n |-> k ]
    /\ inst = [ i \in Ids |->
                IF i <= n
                THEN [ port |-> BasePort + i - 1, lastHealth |-> 0,
                       isHealthy |-> i \in H, activeRequests |-> 0,
                       totalRequests |-> 0, lastRequestTime |-> 0,
                       responseTime |-> 0, status |-> "running" ]
                ELSE NoInstance ]
    /\ container = [ i \in Ids |-> IF i <= n THEN "up" ELSE "none" ]
    /\ spawn = [ i \in Ids |->
                 IF i <= n
                 THEN [ pc |-> "done", port |-> BasePort + i - 1,
                        startTime |-> 0, own |-> "scale" ]
                 ELSE IdleSpawn ]
    /\ rem = {}
    /\ termCalls = {}
    /\ hc = [ s \in Rounds |-> IdleRound ]
    /\ timers = TRUE
    /\ init = "ready"
    /\ sweep = {}
    /\ shutPc = "running"
    /\ shutSeen = << >>
    /\ pullPolicy = "missing"
    /\ pulled = "ok"
    /\ asg = AsgOff
    /\ req = [ r \in Reqs |-> NewReq ]

\* The data path: client requests against a pool of maxInstances instances,
\* with the autoscaler's scale-down and the removal it starts.
InitProxy == \E H \in SUBSET (1..MaxInstances) : RunningPool(MaxInstances, H)

NextProxy ==
    \/ ProxyStep \/ ScaleDown \/ RemoveStep \/ Tick(ProxyTicks)

SpecProxy == InitProxy /\ [][NextProxy]_vars

\* Shutdown of a running controller, for every pool size up to maxInstances.
InitShutdown ==
    \E n \in 0..MaxInstances : \E H \in SUBSET (1..n) : RunningPool(n, H)

NextShutdown ==
    \/ Shutdown \/ RemoveStep \/ ProbeStep

SpecShutdown == InitShutdown /\ [][NextShutdown]_vars

\* The timers of a running controller: prober rounds (which may overlap)
\* with their evictions, autoscaler ticks, the removals both start, and
\* shutdown, over enough clock steps for the unhealthy window to pass.
InitTimers ==
    \E n \in 0..MaxInstances : \E H \in SUBSET (1..n) : RunningPool(n, H)

NextTimers ==
    \/ ProbeStep \/ ScaleUp \/ ScaleDown \/ RemoveStep \/ Shutdown
    \/ Tick(ProbeTicks)

SpecTimers == InitTimers /\ [][NextTimers]_vars

\* Start-up and growth of the pool in the subprocess variant.
NextSub ==
    \/ SubInitialize \/ SubInitReady \/ SubScaleUp \/ Tick(BootTicks)
    \/ \E k \in Ids : \/ SubProbeOk(k) \/ SubProbeFail(k)
                      \/ SubSleepDone(k) \/ SubProcExit(k)

SpecSub == Init /\ [][NextSub]_vars

\* pickInstance() on every pool: Init draws the pool (any order of any
\* instances) and the fields pickInstance reads from bounded sets, and each
\* step dispatches one request.
PickTimes == {0, 600, 1100}
PickActive == 0..1
PickStatus == {"starting", "running"}

RECURSIVE Orders(_)
Orders(S) ==
    IF S = {} THEN { << >> }
    ELSE UNION { { << x >> \o t : t \in Orders(S \ {x}) } : x \in S }

InitPick ==
    /\ \E S \in SUBSET Ids : instances \in Orders(S)
    /\ inst \in [ Ids -> [ port : {0}, lastHealth : {0}, isHealthy : BOOLEAN,
                           activeRequests : PickActive, totalRequests : {0},
                           lastRequestTime : {0}, responseTime : PickTimes,
                           status : PickStatus \cup {"none"} ] ]
    /\ \A i \in Ids :
          IF InPool(i)
          THEN inst[i].status # "none"
          ELSE inst[i] = NoInstance
    /\ now = 0
    /\ nextPort = BasePort + MaxSpawn
    /\ issued = [ k \in Ids |-> BasePort + k - 1 ]
    /\ container = [ i \in Ids |-> IF InPool(i) THEN "up" ELSE "none" ]
    /\ spawn = [ i \in Ids |-> [ pc |-> IF InPool(i) THEN "done" ELSE "failed",
                                 port |-> BasePort + i - 1, startTime |-> 0,
                                 own |-> "scale" ] ]
    /\ rem = {}
    /\ termCalls = {}
    /\ hc = [ s \in Rounds |-> IdleRound ]
    /\ timers = TRUE
    /\ init = "ready"
    /\ sweep = {}
    /\ shutPc = "running"
    /\ shutSeen = << >>
    /\ pullPolicy = "missing"
    /\ pulled = "ok"
    /\ asg = AsgOff
    /\ req = [ r \in Reqs |-> NewReq ]

NextPick == \E r \in Reqs : Dispatch(r)

SpecPick == InitPick /\ [][NextPick]_vars

\* autoScale() on every pool: Init draws the pool (the first n instances
\* spawned, in any order of insertion) and the fields the autoscaler reads;
\* each step is one tick of scaleCheckInterval.
ScaleTimes == {0, 700}
ScaleActive == 0..1
ScaleStatus == {"starting", "running"}

InitScale ==
    /\ now = 2 * ClockStep
    /\ \E n \in 0..MaxSpawn :
          /\ instances \in Orders(1..n)
          /\ nextPort = BasePort + n
          /\ issued = [ k \in 1..n |-> BasePort + k - 1 ]
          /\ container = [ i \in Ids |-> IF i <= n THEN "up" ELSE "none" ]
          /\ spawn = [ i \in Ids |->
                       IF i <= n
                       THEN [ pc |-> "done", port |-> BasePort + i - 1,
                              startTime |-> 0, own |-> "init" ]
                       ELSE IdleSpawn ]
    /\ inst \in [ Ids -> [ port : BasePort..(BasePort + MaxSpawn), lastHealth : {0},
                           isHealthy : BOOLEAN, activeRequests : ScaleActive,
                           totalRequests : {0},
                           lastRequestTime : {0, ClockStep},
                           responseTime : ScaleTimes,
                           status : ScaleStatus ] \cup {NoInstance} ]
    /\ \A i \in Ids :
          IF InPool(i)
          THEN inst[i] # NoInstance /\ inst[i].port = BasePort + i - 1
          ELSE inst[i] = NoInstance
    /\ rem = {}
    /\ termCalls = {}
    /\ hc = [ s \in Rounds |-> IdleRound ]
    /\ timers = TRUE
    /\ init = "ready"
    /\ sweep = {}
    /\ shutPc = "running"
    /\ shutSeen = << >>
    /\ pullPolicy = "missing"
    /\ pulled = "ok"
    /\ asg = AsgOff
    /\ req = [ r \in Reqs |-> NewReq ]

NextScale == ScaleUp \/ ScaleDown

SpecScale == InitScale /\ [][NextScale]_vars

(* ------------------------------- claims -------------------------------- *)
InPoolOf(pool, i) == \E k \in 1..Len(pool) : pool[k] = i
InFlight(r) == req[r].st \in {"waiting", "streaming"}
\* request r is dispatched (handleRequest runs) in this step
Dispatched(r) == req[r].st = "new" /\ req'[r].st # "new"

\* C1: in every reachable state the pool holds at most maxInstances workers
C1_PoolBounded == Len(instances) <= MaxInstances

\* C2: the decrement of the chosen worker's active_requests is executed at
\* most once per dispatched request
C2_DecrementAtMostOnce == \A r \in Reqs : req[r].decs <= 1

\* C3: a dispatched request whose upstream exchange is over, on whatever
\* exit path, has had its decrement executed
C3_DecrementOnEveryExit ==
    \A r \in Reqs : (req[r].st = "closed" /\ req[r].w # 0) => req[r].decs >= 1

\* C4: when the autoscaler removes a worker from the pool (scale-down), no
\* request dispatched to that worker is still in flight
C4_ScaleDownQuiescent ==
    [][ \A i \in Ids :
          (InPoolOf(instances, i) /\ ~InPoolOf(instances', i))
             => \A r \in Reqs : ~(req[r].w = i /\ InFlight(r)) ]_vars

\* C5: after shutdown() completes the pool is empty and removeContainer has
\* been invoked on every worker that was in the pool when it was called
C5_ShutdownRemovesAll ==
    shutPc = "done" =>
        /\ instances = << >>
        /\ \A k \in 1..Len(shutSeen) : shutSeen[k] \in termCalls

\* C6: pick() returns none exactly when no worker of the pool is healthy and
\* Running; otherwise the healthy Running worker of minimal load, the one
\* inserted earliest among those of equal minimal load
ClaimLoad(r) ==
    r.activeRequests * 1000
      + (IF r.responseTime > 100 THEN r.responseTime - 100 ELSE 0)
C6_PickLeastLoaded ==
    [][ \A r \in Reqs : Dispatched(r) =>
          LET H == { k \in 1..Len(instances) :
                        /\ inst[instances[k]].isHealthy
                        /\ inst[instances[k]].status = "running" }
          IN  IF H = {} THEN req'[r].w = 0
              ELSE \E k \in H :
                      /\ req'[r].w = instances[k]
                      /\ \A j \in H :
                            \/ ClaimLoad(inst[instances[k]])
                                 < ClaimLoad(inst[instances[j]])
                            \/ /\ ClaimLoad(inst[instances[k]])
                                    = ClaimLoad(inst[instances[j]])
                               /\ k <= j ]_vars

\* a request went to a worker that tied on load with a worker inserted
\* later, and another went nowhere
C6_Witness ==
    /\ \E r \in Reqs : \E k, j \in 1..Len(instances) :
          /\ req[r].st = "waiting" /\ req[r].w = instances[k] /\ k < j
          /\ inst[instances[j]].isHealthy /\ inst[instances[j]].status = "running"
          /\ inst[instances[k]].totalRequests = 1
          /\ inst[instances[j]].totalRequests = 0
          /\ inst[instances[k]].activeRequests
               # inst[instances[j]].activeRequests + 1
          /\ ClaimLoad(inst[instances[k]]) - 1000 = ClaimLoad(inst[instances[j]])

\* C7: with no healthy Running worker a request is answered 503 in the same
\* step, no upstream request is created and no worker's fields change
C7_NoHealthy503 ==
    [][ \A r \in Reqs :
          ( /\ Dispatched(r)
            /\ ~ \E k \in 1..Len(instances) :
                    /\ inst[instances[k]].isHealthy
                    /\ inst[instances[k]].status = "running" )
          => /\ req'[r] = [ NewReq EXCEPT !.st = "closed", !.code = 503 ]
             /\ inst' = inst ]_vars

\* a request was answered 503 while the pool held a worker that is healthy
\* but not Running and a worker that is Running but not healthy
C7_Witness ==
    /\ \E r \in Reqs : req[r].code = 503 /\ req[r].st = "closed"
    /\ \E i, j \in PoolSet :
          /\ inst[i].isHealthy /\ inst[i].status # "running"
          /\ ~inst[j].isHealthy /\ inst[j].status = "running"

\* C8: two requests arriving one after the other at two idle workers of
\* equal load, before anything else happens, go to different workers
C8_AtomicPickIncrement ==
    \A r1, r2 \in Reqs :
        ( /\ r1 # r2
          /\ req[r1].st = "waiting" /\ req[r2].st = "waiting"
          /\ \A q \in Reqs \ {r1, r2} : req[q].st = "new"
          /\ Len(instances) = 2
          /\ \A k \in 1..2 : /\ inst[instances[k]].isHealthy
                            /\ inst[instances[k]].status = "running"
          /\ inst[instances[1]].responseTime = inst[instances[2]].responseTime )
        => req[r1].w # req[r2].w

C8_Witness ==
    \E r1, r2 \in Reqs :
        /\ r1 # r2
        /\ req[r1].st = "waiting" /\ req[r2].st = "waiting"
        /\ \A q \in Reqs \ {r1, r2} : req[q].st = "new"
        /\ Len(instances) = 2
        /\ \A k \in 1..2 : /\ inst[instances[k]].isHealthy
                          /\ inst[instances[k]].status = "running"
                          /\ inst[instances[k]].activeRequests = 1
        /\ req[r1].w # req[r2].w

\* C9: active_requests of every worker is >= 0 in every reachable state
C9_ActiveNonNegative == \A i \in Ids : inst[i].activeRequests >= 0

\* the only request ever sent to a worker had its decrement executed twice
C9_Witness ==
    \E r \in Reqs :
        /\ req[r].decs = 2
        /\ inst[req[r].w].totalRequests = 1
        /\ inst[req[r].w].activeRequests = 0

\* C10: ports are issued in strictly ascending order starting at 5001, none
\* twice, failed creates and removed workers included; no two workers share
\* a port
C10_PortsMonotone ==
    /\ issued # << >> => issued[1] = 5001
    /\ \A k \in 1..(Len(issued) - 1) : issued[k] < issued[k + 1]
    /\ \A i \in Ids : spawn[i].pc # "unused" =>
          \E k \in 1..Len(issued) : issued[k] = spawn[i].port
    /\ \A i, j \in Ids :
          (i # j /\ spawn[i].pc # "unused" /\ spawn[j].pc # "unused")
             => spawn[i].port # spawn[j].port
    /\ \A i \in Ids : inst[i].status # "none" => inst[i].port = spawn[i].port
    /\ \A i, j \in Ids :
          (i # j /\ inst[i].status # "none" /\ inst[j].status # "none")
             => inst[i].port # inst[j].port

\* a create failed, a worker was removed, and a port was issued after both
C10_Witness ==
    \E i, j, k \in Ids :
        /\ spawn[i].pc = "failed" /\ inst[i].status = "none"
        /\ inst[j].status # "none" /\ ~InPool(j) /\ j \in termCalls
        /\ spawn[k].pc # "unused"
        /\ spawn[k].port > spawn[i].port /\ spawn[k].port > spawn[j].port
        /\ Len(issued) = 3

\* an autoscaler tick issued a scale-up in this step
ScaleUpIssued ==
    \E k \in Ids : /\ spawn[k].pc = "unused" /\ spawn'[k].pc = "creating"
                   /\ spawn'[k].own = "scale"
ClaimHealthy ==
    { k \in 1..Len(instances) : /\ inst[instances[k]].isHealthy
                                /\ inst[instances[k]].status = "running" }
RECURSIVE ClaimSum(_)
ClaimSum(K) ==
    IF K = {} THEN 0
    ELSE LET k == CHOOSE x \in K : TRUE
         IN  ClaimLoad(inst[instances[k]]) + ClaimSum(K \ {k})

\* C11: an autoscaler tick issues a scale-up only when |healthy| <
\* minInstances and |Pool| < maxInstances, or avg_load > scaleUpThreshold and
\* |healthy| < maxInstances
C11_ScaleUpRule ==
    [][ ScaleUpIssued =>
          \/ /\ Cardinality(ClaimHealthy) < MinInstances
             /\ Len(instances) < MaxInstances
          \/ /\ ClaimHealthy # {}
             /\ ClaimSum(ClaimHealthy)
                  > ScaleUpThreshold * 1000 * Cardinality(ClaimHealthy)
             /\ Cardinality(ClaimHealthy) < MaxInstances ]_vars

\* C16: no autoscaler tick executes before initialize() has swept orphans,
\* prepared the image and issued the minInstances spawns
C16_TimersAfterInitSpawns ==
    [][ ScaleUpIssued => init \in {"waiting", "ready"} ]_vars

\* an autoscaler tick removed worker i from the pool in this step
ScaledDown(i) == InPoolOf(instances, i) /\ ~InPoolOf(instances', i)
IdlePositions ==
    { k \in ClaimHealthy : inst[instances[k]].activeRequests = 0 }

\* C12: no scale-down happens at a tick where the number of healthy Running
\* workers is <= minInstances, and a scale-down leaves at least minInstances
\* healthy workers
C12_ScaleDownFloor ==
    [][ (\E i \in Ids : ScaledDown(i)) =>
          /\ Cardinality(ClaimHealthy) > MinInstances
          /\ Cardinality(ClaimHealthy') >= MinInstances ]_vars

\* a scale-down left exactly minInstances healthy workers, all of them idle
\* beyond idleTimeout and without load
C12_Witness ==
    /\ \E t \in rem : t.own = "scale"
    /\ Cardinality(ClaimHealthy) = MinInstances
    /\ \A k \in ClaimHealthy :
          /\ inst[instances[k]].activeRequests = 0
          /\ inst[instances[k]].responseTime = 0
          /\ now - inst[instances[k]].lastRequestTime > IdleTimeout

C14_OneActionPerTick ==
    [][ /\ Cardinality({ k \in Ids : spawn[k].pc = "unused"
                                      /\ spawn'[k].pc # "unused" })
             + Cardinality({ i \in Ids : ScaledDown(i) }) <= 1
        /\ Cardinality(rem' \ rem) <= 1
        /\ Len(issued') <= Len(issued) + 1 ]_vars

\* a tick spawned into a pool that holds workers
C14_Witness ==
    /\ \E k \in Ids : spawn[k].pc = "creating" /\ spawn[k].own = "scale"
    /\ instances # << >>
    /\ rem = {}

\* the prober started the removal of worker i in this step
Evicted(i) ==
    \E t \in rem' \ rem : t.own = "evict" /\ t.id = i /\ t.pc = "stop"

\* C15: the prober evicts a worker only if, once the round's probes have
\* settled, the worker is unhealthy and its last 200 OK is more than 60 s old
C15_EvictOnlyLongUnhealthy ==
    [][ \A i \in Ids : Evicted(i) =>
          /\ ~inst'[i].isHealthy
          /\ now - inst'[i].lastHealth > 60000 ]_vars

\* C17: shutdown() has cancelled both timers when its first terminate is
\* issued, and once it has been called no prober round and no autoscaler
\* tick begins
C17_ShutdownStopsTimers ==
    [][ /\ (\E t \in rem' : t.own = "shutdown") => ~timers'
        /\ shutPc' # "running" => ~timers'
        /\ shutPc # "running" =>
              /\ \A s \in Rounds : hc[s].pc = "idle" => hc'[s].pc = "idle"
              /\ ~ScaleUpIssued
              /\ ~ \E t \in rem' \ rem : t.own = "scale" /\ t.pc = "stop" ]_vars

\* shutdown() is waiting for its removals while a prober round that began
\* before it is still in progress
C17_Witness ==
    /\ shutPc = "stopping" /\ ~timers
    /\ \E t \in rem : t.own = "shutdown"
    /\ \E s \in Rounds : hc[s].pc = "probing"

\* C20: a worker whose removal was started by a scale-down or an eviction is
\* out of the pool whatever docker answers; a failed stop or rm is followed
\* by rm -f; and when rm -f fails too the tick goes on normally
C20_TerminateFailure ==
    [][ \A t \in rem : t.own \in {"scale", "evict"} =>
          /\ ~InPoolOf(instances, t.id) /\ ~InPoolOf(instances', t.id)
          /\ (t.pc \in {"stop", "rm"} /\ t \notin rem') =>
                \/ /\ t.pc = "stop" /\ [ t EXCEPT !.pc = "rm" ] \in rem'
                   /\ container'[t.id] = "exited"
                \/ /\ t.pc = "rm" /\ container'[t.id] = "gone"
                \/ [ t EXCEPT !.pc = "force" ] \in rem'
          /\ (t.pc = "force" /\ t \notin rem' /\ t.own = "evict") =>
                IF hc[t.slot].queue = << >>
                THEN hc'[t.slot] = IdleRound
                ELSE /\ hc'[t.slot].pc = "evicting"
                     /\ Evicted(Head(hc[t.slot].queue)) ]_vars

\* the stop and the rm -f of an evicted worker both failed: the worker is out
\* of the pool, its container still runs, and the round went on to evict the
\* next worker
C20_Witness ==
    \E i \in termCalls : \E t \in rem :
        /\ shutPc = "running"
        /\ ~InPool(i) /\ container[i] = "up"
        /\ \A u \in rem : u.id # i
        /\ t.own = "evict"

\* createContainer() of spawn k was refused in this step
CreateRefused(k) == spawn[k].pc = "creating" /\ spawn'[k].pc = "failed"

\* C19: when the runtime refuses to create a worker the pool and the worker
\* records stay as they are, no other create is attempted in that step, and
\* initialize() does not abort
C19_CreateFailure ==
    [][ \A k \in Ids : CreateRefused(k) =>
          /\ instances' = instances /\ inst' = inst
          /\ ~InPoolOf(instances', k) /\ inst'[k] = NoInstance
          /\ container' = container /\ container[k] = "none"
          /\ nextPort' = nextPort /\ issued' = issued
          /\ \A j \in Ids : j # k => spawn'[j] = spawn[j]
          /\ rem' = rem /\ termCalls' = termCalls
          /\ init' = init /\ init' # "failed" ]_vars

\* initialize() completed although its create was refused, a scale-up of a
\* later tick was refused too, and a third tick has issued another one
C19_Witness ==
    \E k, m, j \in Ids :
        /\ init = "ready"
        /\ spawn[k].own = "init" /\ spawn[k].pc = "failed" /\ inst[k] = NoInstance
        /\ spawn[m].own = "scale" /\ spawn[m].pc = "failed" /\ inst[m] = NoInstance
        /\ spawn[j].own = "scale" /\ spawn[j].pc = "creating"
        /\ spawn[j].port > spawn[m].port
        /\ instances = << >>

\* C18: a worker that did not answer 200 within its warm-up window is out of
\* the pool and terminate has been invoked on its container or child process
C18_WarmupFailureTerminates ==
    \A k \in Ids :
        (spawn[k].pc \in {"removing", "failed", "gaveup"} /\ inst[k] # NoInstance)
           => ~InPool(k) /\ k \in termCalls

(* --------------------- warm-up under the prober ------------------------ *)
\* Growth of the pool while the prober's timer runs: autoscaler ticks spawn,
\* the new instances warm up, and healthCheckAll probes whatever the pool
\* holds, instances still warming up included.  Every round ends before the
\* next tick of the prober's timer.
NextWarm ==
    \/ ScaleUp \/ SpawnStep \/ HealthCheckStart(1)
    \/ \E i \in Ids : HealthProbeOk(1, i) \/ HealthProbeFail(1, i)

SpecWarm == Init /\ [][NextWarm]_vars

\* C21: every instance of the pool whose isHealthy flag is true has status
\* "running", however prober rounds interleave with the warm-up loop.
C21_HealthyImpliesRunning ==
    \A i \in PoolSet : inst[i].isHealthy => inst[i].status = "running"

\* C22: the step that sets an instance's status to "running" finds the
\* instance already probed with a 200 answer or is that answer itself: no
\* instance is "running" with no successful probe behind it.
C22_RunningAfterProbe ==
    [][ \A i \in Ids :
          (inst[i].status # "running" /\ inst'[i].status = "running")
             => inst'[i].isHealthy ]_vars

\* C23: no instance with status "stopped" is in the pool: on every path
\* (scale-down, eviction, warm-up give-up, shutdown) the instance has left
\* the pool by the time removeContainer marks it stopped.
C23_StoppedNotInPool ==
    \A i \in PoolSet : inst[i].status # "stopped"

C23_Witness ==
    \E i \in Ids :
        /\ inst[i].status = "stopped" /\ ~InPool(i) /\ i \in termCalls
        /\ \E j \in PoolSet : inst[j].status = "running"

\* C24: every client request gets exactly one outcome, 503, the upstream's
\* status, 502 or 504: an outcome once sent is never followed by another, a
\* request that is over has one, a timeout without a response gives 504 and
\* the "error" that follows the destroy adds no 502, and 502/504 are sent
\* only when no headers had been sent.
C24_OneOutcome ==
    [][ \A r \in Reqs :
          /\ req'[r].code \in {0, 503, 200, 502, 504}
          /\ req[r].code # 0 => req'[r].code = req[r].code
          /\ req'[r].st = "closed" => req'[r].code # 0
          /\ req'[r].code = 503 <=> (req'[r].st = "closed" /\ req'[r].w = 0)
          /\ req'[r].st = "destroyed" => req'[r].code = 504
          /\ req[r].st = "destroyed" => req'[r].code = 504 ]_vars

C24_Witness ==
    /\ \E r \in Reqs : req[r].st = "closed" /\ req[r].code = 504 /\ req[r].decs = 2
    /\ \E r \in Reqs : req[r].st = "closed" /\ req[r].code = 502
    /\ \E r \in Reqs : req[r].st = "closed" /\ req[r].code = 200

\* C25: in the data path an instance's responseTime changes only in a step
\* that completes one of its requests whose body was streaming, and the new
\* value is that request's own latency (Date.now() - startTime); steps that
\* answer 502 or 504, or that end a request in any other way, leave every
\* responseTime as it was.
C25_ResponseTimeLastSample ==
    [][ /\ \A i \in Ids :
             inst'[i].responseTime # inst[i].responseTime
                => \E r \in Reqs :
                      /\ req[r].w = i /\ req[r].st = "streaming"
                      /\ req'[r].st = "closed" /\ req'[r].code = 200
                      /\ \E j \in SubTick :
                            inst'[i].responseTime = now - req[r].t0 + j
        /\ \A r \in Reqs :
             (req[r].code = 0 /\ req'[r].code \in {502, 503, 504})
                => \A i \in Ids : inst'[i].responseTime = inst[i].responseTime
      ]_vars

C25_Witness ==
    \E r, q \in Reqs :
        /\ r # q /\ req[r].w = req[q].w /\ req[r].w # 0
        /\ req[r].st = "closed" /\ req[r].code = 200
        /\ req[q].st = "closed" /\ req[q].code \in {502, 504}
        /\ req[q].t0 >= ClockStep
        /\ inst[req[r].w].responseTime = 700

(* ------------------- a controller with unhealthy workers --------------- *)
\* A controller that has been running for ProbeTicks clock steps: n
\* instances were spawned and warmed up at time 0; those of H answered the
\* last prober round, the others have not answered since time 0.
AgedPool(n, H) ==
    /\ now = ProbeTicks * ClockStep
    /\ nextPort = BasePort + n
    /\ issued = [ k \in 1..n |-> BasePort + k - 1 ]
    /\ instances = [ k \in 1..n |-> k ]
    /\ inst = [ i \in Ids |->
                IF i <= n
                THEN [ port |-> BasePort + i - 1,
                       lastHealth |-> IF i \in H THEN now ELSE 0,
                       isHealthy |-> i \in H, activeRequests |-> 0,
                       totalRequests |-> 0, lastRequestTime |-> 0,
                       responseTime |-> 0, status |-> "running" ]
                ELSE NoInstance ]
    /\ container = [ i \in Ids |-> IF i <= n THEN "up" ELSE "none" ]
    /\ spawn = [ i \in Ids |->
                 IF i <= n
                 THEN [ pc |-> "done", port |-> BasePort + i - 1,
                        startTime |-> 0, own |-> "scale" ]
                 ELSE IdleSpawn ]
    /\ rem = {}
    /\ termCalls = {}
    /\ hc = [ s \in Rounds |-> IdleRound ]
    /\ timers = TRUE
    /\ init = "ready"
    /\ sweep = {}
    /\ shutPc = "running"
    /\ shutSeen = << >>
    /\ pullPolicy = "missing"
    /\ pulled = "ok"
    /\ asg = AsgOff
    /\ req = [ r \in Reqs |-> NewReq ]

\* Failures while the controller serves: prober rounds whose probes fail
\* and whose evictions fail to remove the container, autoscaler ticks whose
\* `docker run` fails, and client requests arriving in between.
InitFail ==
    \E n \in 1..MaxInstances : \E H \in SUBSET (1..n) : AgedPool(n, H)

NextFail ==
    \/ ProbeStep \/ RemoveStep \/ ScaleUp
    \/ \E k \in Ids : CreateFail(k)
    \/ \E r \in Reqs : Dispatch(r)

SpecFail == InitFail /\ [][NextFail]_vars

\* a probe of round s on instance i settles in this step as a failure
ProbeFailed(s, i) ==
    /\ hc[s].pc = "probing" /\ i \in hc[s].pending
    /\ (hc'[s].pc # "probing" \/ i \notin hc'[s].pending)
    /\ ~inst'[i].isHealthy

\* C26: a failed probe of an instance sets isHealthy to false and nothing
\* else: status, activeRequests, totalRequests, lastRequestTime and
\* lastHealth of the instance keep their values, no other instance and no
\* container changes, no request of the data path changes, and the instance
\* stays in the pool (when the probe was the round's last one, the round's
\* eviction rule may remove instances unhealthy for more than 60 s in the
\* same step, and only those).
C26_FailedProbeFrame ==
    [][ \A s \in Rounds : \A i \in Ids :
          ProbeFailed(s, i) =>
             /\ inst'[i] = [ inst[i] EXCEPT !.isHealthy = FALSE ]
             /\ \A j \in Ids \ {i} : inst'[j] = inst[j]
             /\ req' = req
             /\ container' = container
             /\ \A j \in Ids :
                   (InPool(j) /\ ~InPoolOf(instances', j))
                      => /\ ~inst'[j].isHealthy
                         /\ now - inst'[j].lastHealth > UnhealthyWindow ]_vars

C26_Witness ==
    \E r \in Reqs :
        /\ req[r].st = "waiting"
        /\ InPool(req[r].w)
        /\ ~inst[req[r].w].isHealthy
        /\ inst[req[r].w].activeRequests >= 1
        /\ inst[req[r].w].status = "running"
        /\ inst[req[r].w].lastHealth = now

\* the sum of totalRequests over the instances of K, removed ones included
RECURSIVE TotalSum(_, _)
TotalSum(I, K) ==
    IF K = {} THEN 0
    ELSE LET i == CHOOSE x \in K : TRUE
         IN  I[i].totalRequests + TotalSum(I, K \ {i})

\* C27: no instance's totalRequests ever decreases; a step that dispatches
\* a request adds exactly 1 to the totalRequests of the instance picked and
\* leaves the others, a step that answers 503 changes none, and no other
\* step changes any; so the sum over all instances, removed ones included,
\* is the number of requests dispatched so far.
C27_TotalRequestsCount ==
    [][ /\ \A i \in Ids : inst'[i].totalRequests >= inst[i].totalRequests
        /\ \A r \in Reqs :
              Dispatched(r) =>
                 \A i \in Ids :
                    inst'[i].totalRequests =
                       inst[i].totalRequests + (IF req'[r].w = i THEN 1 ELSE 0)
        /\ (\A r \in Reqs : ~Dispatched(r))
              => \A i \in Ids : inst'[i].totalRequests = inst[i].totalRequests
        /\ TotalSum(inst', Ids) = Cardinality({ r \in Reqs : req'[r].w # 0 })
      ]_vars

C27_Witness ==
    /\ \A r \in Reqs : req[r].w # 0
    /\ \E i \in Ids : ~InPool(i) /\ inst[i].totalRequests >= 1
    /\ \E i \in PoolSet : inst[i].totalRequests >= 1
    /\ TotalSum(inst, Ids) = MaxReq

(* ------------------------ recovery of the pool ------------------------- *)
\* A controller whose `docker run` commands and health probes succeed: the
\* autoscaler's ticks spawn, the new instances warm up (docker inspect may
\* still report "created" for a while), and the prober's rounds probe.
InitLive ==
    \E n \in 0..MaxInstances : \E H \in SUBSET (1..n) : AgedPool(n, H)

\* getContainerStatus() reports the started container as running
InspectRunning(k) == InspectDone(k) /\ inst'[k].status = "running"

NextLive ==
    \/ ScaleUp \/ HealthCheckStart(1)
    \/ \E k \in Ids : \/ CreateOk(k) \/ InspectDone(k) \/ WarmSleepDone(k)
                      \/ WarmProbeOk(k) \/ HealthProbeOk(1, k)

\* setInterval keeps firing both timers, every started command and probe
\* returns, and docker inspect of a started container says "running" in the
\* end
FairLive ==
    /\ WF_vars(ScaleUp) /\ WF_vars(HealthCheckStart(1))
    /\ \A k \in Ids : /\ WF_vars(CreateOk(k)) /\ WF_vars(WarmSleepDone(k))
                      /\ WF_vars(WarmProbeOk(k)) /\ WF_vars(HealthProbeOk(1, k))
                      /\ SF_vars(InspectRunning(k))

SpecLive == InitLive /\ [][NextLive]_vars /\ FairLive

\* C28: when `docker run` and the health probes succeed, every state with
\* fewer than minInstances healthy running instances is followed by one
\* with at least minInstances of them.
C28_RecoversToMin ==
    (Cardinality(ClaimHealthy) < MinInstances)
        ~> (Cardinality(ClaimHealthy) >= MinInstances)

C28_Witness ==
    /\ Cardinality(ClaimHealthy) >= MinInstances
    /\ \A i \in PoolSet : spawn[i].startTime = now /\ spawn[i].own = "scale"
    /\ \E i \in PoolSet : IsHealthyRunning(inst[i]) /\ spawn[i].pc = "done"

(* ------------------------- an idle controller -------------------------- *)
\* Client traffic has ceased: maxInstances instances, all healthy, no
\* request open, each with the responseTime its last request left (R) and
\* the activeRequests its requests left (A): 0, or 1 where the upstream cut
\* a response off in the middle of the body (ResponseAborted).
IdleLeft == 0..1
IdlePool(R, A) ==
    /\ now = 0
    /\ nextPort = BasePort + MaxInstances
    /\ issued = [ k \in 1..MaxInstances |-> BasePort + k - 1 ]
    /\ instances = [ k \in 1..MaxInstances |-> k ]
    /\ inst = [ i \in Ids |->
                IF i <= MaxInstances
                THEN [ port |-> BasePort + i - 1, lastHealth |-> 0,
                       isHealthy |-> TRUE, activeRequests |-> A[i],
                       totalRequests |-> 1, lastRequestTime |-> 0,
                       responseTime |-> R[i], status |-> "running" ]
                ELSE NoInstance ]
    /\ container = [ i \in Ids |-> IF i <= MaxInstances THEN "up" ELSE "none" ]
    /\ spawn = [ i \in Ids |->
                 IF i <= MaxInstances
                 THEN [ pc |-> "done", port |-> BasePort + i - 1,
                        startTime |-> 0, own |-> "scale" ]
                 ELSE IdleSpawn ]
    /\ rem = {}
    /\ termCalls = {}
    /\ hc = [ s \in Rounds |-> IdleRound ]
    /\ timers = TRUE
    /\ init = "ready"
    /\ sweep = {}
    /\ shutPc = "running"
    /\ shutSeen = << >>
    /\ pullPolicy = "missing"
    /\ pulled = "ok"
    /\ asg = AsgOff
    /\ req = [ r \in Reqs |-> NewReq ]

InitIdle ==
    \E R \in [ 1..MaxInstances -> ScaleTimes ] :
       \E A \in [ 1..MaxInstances -> IdleLeft ] : IdlePool(R, A)

\* the probe of an instance whose container was removed during the round
ProbeGone(i) == HealthProbeFail(1, i) /\ container[i] # "up"

\* The probes of running containers succeed; the autoscaler's ticks scale
\* down and the removals run; time passes.
NextIdle ==
    \/ HealthCheckStart(1) \/ ScaleDown \/ RemoveStep \/ Tick(ProbeTicks)
    \/ \E i \in Ids : HealthProbeOk(1, i) \/ ProbeGone(i)

\* setInterval keeps firing both timers (an autoscaler tick falls into the
\* moments in which shouldScaleDown() holds if these keep coming), every
\* probe and docker command returns, the clock advances
FairIdle ==
    /\ WF_vars(HealthCheckStart(1)) /\ SF_vars(ScaleDown)
    /\ WF_vars(RemoveStep) /\ WF_vars(Tick(ProbeTicks))
    /\ \A i \in Ids : WF_vars(HealthProbeOk(1, i)) /\ WF_vars(ProbeGone(i))

SpecIdle == InitIdle /\ [][NextIdle]_vars /\ FairIdle

\* C29: with no client traffic, more than minInstances healthy instances
\* and probes that succeed, the pool ends up with exactly minInstances
\* instances, and never has fewer.
C29_IdleShrinksToMin ==
    /\ [](Len(instances) >= MinInstances)
    /\ <>[](Len(instances) = MinInstances)

\* the removal of instance i is over and its container is still there
TerminationFailed(i) ==
    /\ i \in termCalls /\ Exists(i) /\ \A t \in rem : t.id # i

\* C30: no failure stops the controller's other activities: whatever probes,
\* terminations and scale-ups have failed, both timers stay armed and the
\* process alive, so an autoscaler tick that finds shouldScaleUp() true
\* spawns, a prober tick starts a round, and an arriving request is
\* dispatched, to a healthy running instance whenever there is one.
C30_FailuresDoNotStop ==
    /\ timers /\ Alive
    /\ (shouldScaleUp /\ UnusedIds # {}) => ENABLED ScaleUp
    /\ (instances # << >> /\ FreeRounds # {})
          => ENABLED (\E s \in Rounds : HealthCheckStart(s))
    /\ NewReqs # {} => ENABLED (\E r \in Reqs : Dispatch(r))
    /\ (NewReqs # {} /\ getHealthyInstances # << >>)
          => /\ InPool(pickInstance)
             /\ IsHealthyRunning(inst[pickInstance])

C30_Witness ==
    /\ \E k \in Ids : spawn[k].own = "scale" /\ spawn[k].pc = "failed"
    /\ \E i \in Ids : TerminationFailed(i) /\ ~inst[i].isHealthy
    /\ \E r \in Reqs : req[r].st = "waiting" /\ IsHealthyRunning(inst[req[r].w])
    /\ NewReqs # {} /\ pickInstance # 0
    /\ ENABLED (\E r \in Reqs : Dispatch(r))
    /\ timers

(* ---------------------------- pull policy ------------------------------ *)
\* Start-up under each of the three pull policies, with the autoscaler's
\* timer running from the constructor on.
InitPull == \E policy \in PullPolicies : InitWith(policy)

NextPull ==
    \/ InitStep \/ SpawnStep \/ ScaleUp

SpecPull == InitPull /\ [][NextPull]_vars

\* the initial spawnInstance() calls made in this step
InitialSpawns ==
    { k \in Ids : /\ spawn[k].pc = "unused" /\ spawn'[k].pc = "creating"
                  /\ spawn'[k].own = "init" }

\* C31: initialize() follows the pull policy: under "never" no `docker
\* pull` is ever started; a failed pull under "always" fails initialize()
\* with no instance spawned; a failed pull under "missing" goes on to spawn
\* the minInstances initial instances; nothing else fails initialize().
C31_PullPolicy ==
    [][ /\ pullPolicy = "never" => (init' # "pulling" /\ pulled' = "no")
        /\ (pulled = "no" /\ pulled' = "failed") =>
              IF pullPolicy = "always"
              THEN init' = "failed" /\ InitialSpawns = {}
              ELSE /\ pullPolicy = "missing"
                   /\ init' = "waiting"
                   /\ Cardinality(InitialSpawns) = MinInstances
        /\ init' = "failed" => (pullPolicy = "always" /\ pulled' = "failed")
      ]_vars

C31_Witness ==
    /\ pullPolicy = "missing" /\ pulled = "failed" /\ init = "ready"
    /\ \E k \in Ids : spawn[k].own = "init" /\ spawn[k].pc = "done" /\ InPool(k)

\* C32: the latency term of the load is below 1 for every response time
\* the proxy or the prober records, so that of two instances of the pool
\* the one with fewer active requests has the lower load.
C32_FewerActiveLowerLoad ==
    \A i, j \in PoolSet :
        inst[i].activeRequests < inst[j].activeRequests
           => getInstanceLoad(inst[i]) < getInstanceLoad(inst[j])

\* C32 as amended: of two instances of the pool the one with fewer active
\* requests has the lower load when its responseTime is under 1100 ms, the
\* range in which the latency term is below 1; the term itself is 0 up to
\* 100 ms and grows by 1 per second of latency beyond, without a cap.
C32_FewerActiveLowerLoadFast ==
    \A i, j \in PoolSet :
        /\ (/\ inst[i].activeRequests < inst[j].activeRequests
            /\ inst[i].responseTime - 100 < 1000)
              => getInstanceLoad(inst[i]) < getInstanceLoad(inst[j])
        /\ getInstanceLoad(inst[i]) - inst[i].activeRequests * 1000
              = Max(0, inst[i].responseTime - 100)

C32_Witness ==
    \E i, j \in PoolSet :
        /\ inst[i].activeRequests < inst[j].activeRequests
        /\ inst[i].responseTime = 700
        /\ \E k \in PoolSet : inst[k].responseTime >= SERVER_TIMEOUT

(* ---------------- the subprocess variant's autoscaler ------------------ *)
SubLowLoadThresholdMilli == 500
SubIdleThreshold == 30000

\* LoadBalancer.shouldScaleDown() of the subprocess variant
SubShouldScaleDown ==
    LET healthy == SubHealthy
    IN  IF Len(healthy) <= MinInstances THEN FALSE
        ELSE /\ SumLoad(healthy, inst) < SubLowLoadThresholdMilli * Len(healthy)
             /\ \E k \in 1..Len(healthy) :
                    /\ now - inst[healthy[k]].lastRequestTime > SubIdleThreshold
                    /\ inst[healthy[k]].activeRequests = 0

\* healthy.filter(active = 0).sort(by lastRequestTime)[0]; 0: undefined
SubScaleDownCandidate ==
    LET idle == SelectSeq(SubHealthy, LAMBDA i : inst[i].activeRequests = 0)
    IN  IF idle = << >> THEN 0
        ELSE idle[CHOOSE k \in 1..Len(idle) :
                    \A j \in 1..Len(idle) :
                        \/ inst[idle[k]].lastRequestTime
                             < inst[idle[j]].lastRequestTime
                        \/ /\ inst[idle[k]].lastRequestTime
                               = inst[idle[j]].lastRequestTime
                           /\ k <= j]

\* a tick in which shouldScaleUp() fails and shouldScaleDown() holds:
\* killInstance (SIGTERM is sent) and removeInstance (splice)
SubScaleDown ==
    /\ Alive /\ timers /\ ~SubShouldScaleUp /\ SubShouldScaleDown
    /\ SubScaleDownCandidate # 0
    /\ instances' = Without(instances, SubScaleDownCandidate)
    /\ termCalls' = termCalls \cup { SubScaleDownCandidate }
    /\ UNCHANGED << now, nextPort, issued, inst, container, spawn, rem, hc,
                    timers, init, sweep, shutPc, shutSeen, pullPolicy, pulled, asg,
                    req >>

\* The subprocess variant's autoScale() on every pool of up to MaxSpawn
\* child processes: any order, health flags, open requests, last request
\* times and response times.
InitSubScale ==
    /\ now = 2 * ClockStep
    /\ \E n \in 0..MaxSpawn :
          /\ instances \in Orders(1..n)
          /\ nextPort = BasePort + n
          /\ issued = [ k \in 1..n |-> BasePort + k - 1 ]
          /\ container = [ i \in Ids |-> IF i <= n THEN "up" ELSE "none" ]
          /\ spawn = [ i \in Ids |->
                       IF i <= n
                       THEN [ pc |-> "done", port |-> BasePort + i - 1,
                              startTime |-> 0, own |-> "init" ]
                       ELSE IdleSpawn ]
    /\ inst \in [ Ids -> [ port : BasePort..(BasePort + MaxSpawn),
                           lastHealth : {0}, isHealthy : BOOLEAN,
                           activeRequests : ScaleActive, totalRequests : {0},
                           lastRequestTime : {0, ClockStep},
                           responseTime : ScaleTimes,
                           status : {"process"} ] \cup {NoInstance} ]
    /\ \A i \in Ids :
          IF InPool(i)
          THEN inst[i] # NoInstance /\ inst[i].port = BasePort + i - 1
          ELSE inst[i] = NoInstance
    /\ rem = {}
    /\ termCalls = {}
    /\ hc = [ s \in Rounds |-> IdleRound ]
    /\ timers = TRUE
    /\ init = "ready"
    /\ sweep = {}
    /\ shutPc = "running"
    /\ shutSeen = << >>
    /\ pullPolicy = "missing"
    /\ pulled = "ok"
    /\ asg = AsgOff
    /\ req = [ r \in Reqs |-> NewReq ]

NextSubScale == SubScaleUp \/ SubScaleDown

SpecSubScale == InitSubScale /\ [][NextSubScale]_vars

\* configured values: scaleUpThreshold and scaleDownThreshold in
\* thousandths, idleTimeout in ms; the defaults and one other value each
CfgScaleUp == {1000, ScaleUpThreshold * 1000}
CfgScaleDown == {ScaleDownThresholdMilli, 2000}
CfgIdle == {10000, IdleTimeout}

\* the decisions the configuration calls for on the pool as it is
ClaimScaleUp(up) ==
    LET healthy == SubHealthy
    IN  IF Len(healthy) >= MaxInstances THEN FALSE
        ELSE IF Len(healthy) < MinInstances THEN TRUE
        ELSE SumLoad(healthy, inst) > up * Len(healthy)
ClaimScaleDown(down, idle) ==
    LET healthy == SubHealthy
    IN  IF Len(healthy) <= MinInstances THEN FALSE
        ELSE /\ SumLoad(healthy, inst) < down * Len(healthy)
             /\ \E k \in 1..Len(healthy) :
                    /\ now - inst[healthy[k]].lastRequestTime > idle
                    /\ inst[healthy[k]].activeRequests = 0

\* C33: in the subprocess variant shouldScaleUp() and shouldScaleDown()
\* decide by the configured scaleUpThreshold, scaleDownThreshold and
\* idleTimeout, whatever their values.
C33_SubFollowsConfig ==
    \A up \in CfgScaleUp : \A down \in CfgScaleDown : \A idle \in CfgIdle :
        /\ SubShouldScaleUp <=> ClaimScaleUp(up)
        /\ SubShouldScaleDown <=> ClaimScaleDown(down, idle)

(* ------------------- the round-robin DockerASG variant ------------------ *)
AsgMaxMin == 2
AsgMaxReq == 3
AsgThreshold == 500
AsgIds == 1..(AsgMaxMin + AsgMaxReq)
AsgTimes == {100, 700}

\* instances.reduce((sum, i) => sum + i.avgResponseTime, 0)
RECURSIVE AsgSum(_, _)
AsgSum(seq, avg) ==
    IF seq = << >> THEN 0 ELSE avg[Head(seq)] + AsgSum(Tail(seq), avg)

\* DockerASG.shouldScale() on a pool with the given average response times
AsgShouldScale(a) ==
    LET n == Len(a.instances)
        sum == AsgSum(a.instances, a.avg)
    IN  IF n < a.min THEN "up"
        ELSE IF n >= a.max THEN "down"
        ELSE IF sum > AsgThreshold * n THEN "up"
        ELSE IF 2 * sum < AsgThreshold * n /\ n > a.min THEN "down"
        ELSE "none"

\* createInstance() up to its await: the port is taken and `docker run`
\* is started
AsgCreateStart(a) ==
    [ a EXCEPT !.made = @ + 1, !.creating = @ \cup { a.made + 1 } ]

\* scale() up to its first await
AsgScale(a) ==
    LET action == AsgShouldScale(a)
        n == Len(a.instances)
    IN  IF action = "up" THEN AsgCreateStart(a)
        ELSE IF action = "down"
        THEN IF n > a.min THEN a
             ELSE IF n = 0 THEN a
             ELSE [ a EXCEPT !.removing = @ \cup { a.instances[n] } ]
        ELSE a

\* new DockerASG(): config.yaml is read and initInstances() starts the
\* first createInstance()
AsgNew(min, max) ==
    AsgCreateStart(
        [ alive |-> TRUE, min |-> min, max |-> max, instances |-> << >>,
          cur |-> 0, avg |-> [ i \in AsgIds |-> 0 ],
          active |-> [ i \in AsgIds |-> 0 ], made |-> 0, creating |-> {},
          initId |-> 1, initLeft |-> min - 1, removing |-> {}, sent |-> 0,
          cleanup |-> FALSE ])

InitAsg ==
    /\ \E min \in 1..AsgMaxMin : \E max \in min..AsgMaxMin :
          asg = AsgNew(min, max)
    /\ now = 0
    /\ nextPort = BasePort
    /\ issued = << >>
    /\ instances = << >>
    /\ inst = [ i \in Ids |-> NoInstance ]
    /\ container = [ i \in Ids |-> "none" ]
    /\ spawn = [ i \in Ids |-> IdleSpawn ]
    /\ rem = {}
    /\ termCalls = {}
    /\ hc = [ s \in Rounds |-> IdleRound ]
    /\ timers = FALSE
    /\ init = "new"
    /\ sweep = {}
    /\ shutPc = "running"
    /\ shutSeen = << >>
    /\ pullPolicy = "missing"
    /\ pulled = "no"
    /\ req = [ r \in Reqs |-> NewReq ]

AsgFrame ==
    UNCHANGED << now, nextPort, issued, instances, inst, container, spawn,
                 rem, termCalls, hc, timers, init, sweep, shutPc, shutSeen,
                 pullPolicy, pulled, req >>

\* `docker run` printed the container id: the instance is pushed; in
\* initInstances() the loop goes on to the next createInstance()
AsgCreateOk(i) ==
    /\ asg.alive /\ i \in asg.creating
    /\ LET pushed == [ asg EXCEPT !.instances = Append(@, i),
                                  !.creating = @ \ {i} ]
       IN  asg' = IF i = asg.initId /\ asg.initLeft > 0
                  THEN [ AsgCreateStart(pushed) EXCEPT
                           !.initId = pushed.made + 1, !.initLeft = @ - 1 ]
                  ELSE pushed
    /\ AsgFrame

\* `docker run` failed: createInstance() rejects and nobody catches it;
\* the runtime either ends the process or only warns
AsgCreateFail(i) ==
    /\ asg.alive /\ i \in asg.creating
    /\ \E exits \in BOOLEAN :
          asg' = [ asg EXCEPT !.creating = @ \ {i}, !.alive = ~exits ]
    /\ AsgFrame

\* handleRequest() up to the proxied request's callbacks
AsgRequest ==
    /\ asg.alive /\ asg.sent < AsgMaxReq /\ asg.instances # << >>
    /\ LET i == asg.instances[asg.cur + 1]
       IN  asg' = [ asg EXCEPT !.cur = (asg.cur + 1) % Len(asg.instances),
                               !.active[i] = @ + 1, !.sent = @ + 1 ]
    /\ AsgFrame

\* proxyRes 'end' after t ms: the running average, the counter, scale()
AsgResponseEnd(i, t) ==
    /\ asg.alive /\ asg.active[i] > 0
    /\ asg' = AsgScale([ asg EXCEPT !.avg[i] = (@ + t) \div 2,
                                    !.active[i] = @ - 1 ])
    /\ AsgFrame

\* proxyReq 'error'
AsgProxyError(i) ==
    /\ asg.alive /\ asg.active[i] > 0
    /\ asg' = [ asg EXCEPT !.active[i] = @ - 1 ]
    /\ AsgFrame

\* removeInstance() after `docker rm -f`: indexOf, splice, index reset
AsgRemoveDone(i) ==
    /\ asg.alive /\ i \in asg.removing
    /\ LET left == Without(asg.instances, i)
       IN  asg' = [ asg EXCEPT !.removing = @ \ {i},
                               !.instances = left,
                               !.cur = IF left # asg.instances
                                          /\ asg.cur >= Len(left)
                                       THEN 0 ELSE @ ]
    /\ AsgFrame

\* SIGINT: cleanup() removes the containers of the pool, process.exit(0)
AsgSigint ==
    /\ asg.alive /\ ~asg.cleanup
    /\ asg' = [ asg EXCEPT !.cleanup = TRUE ]
    /\ AsgFrame
AsgExit ==
    /\ asg.alive /\ asg.cleanup
    /\ asg' = [ asg EXCEPT !.alive = FALSE ]
    /\ AsgFrame

NextAsg ==
    \/ AsgRequest
    \/ AsgSigint
    \/ AsgExit
    \/ \E i \in AsgIds : \/ AsgCreateOk(i)
                         \/ AsgCreateFail(i)
                         \/ AsgProxyError(i)
                         \/ AsgRemoveDone(i)
                         \/ \E t \in AsgTimes : AsgResponseEnd(i, t)

SpecAsg == InitAsg /\ [][NextAsg]_vars

\* C34: in the round-robin DockerASG variant scale() starts removing an
\* instance only while the pool holds more than minInstances instances,
\* and no removal takes the pool below minInstances.
C34_ScaleDownAboveMin ==
    [][ /\ asg'.removing \ asg.removing # {} =>
            Len(asg.instances) > asg.min
        /\ Len(asg'.instances) < Len(asg.instances) =>
            Len(asg'.instances) >= asg.min ]_vars


\* Selection against every way a worker leaves service: a controller that
\* has run for ProbeTicks clock steps, with n instances of which those in H
\* answered the last prober round and those in W are still in the warm-up
\* loop they entered maxWait ago; then prober rounds with their evictions,
\* scale-down, the warm-up loops giving up, shutdown, and client requests
\* dispatched in between.
SelectReqs == 2
InitSelect ==
    /\ now = ProbeTicks * ClockStep
    /\ \E n \in 1..MaxInstances : \E H \in SUBSET (1..n) : \E W \in SUBSET (1..n) :
          /\ nextPort = BasePort + n
          /\ issued = [ k \in 1..n |-> BasePort + k - 1 ]
          /\ instances = [ k \in 1..n |-> k ]
          /\ inst = [ i \in Ids |->
                      IF i <= n
                      THEN [ port |-> BasePort + i - 1,
                             lastHealth |-> IF i \in H THEN now
                                            ELSE IF i \in W THEN now - MaxWait
                                            ELSE 0,
                             isHealthy |-> i \in H, activeRequests |-> 0,
                             totalRequests |-> 0,
                             lastRequestTime |-> IF i \in W THEN now - MaxWait
                                                 ELSE 0,
                             responseTime |-> 0, status |-> "running" ]
                      ELSE NoInstance ]
          /\ container = [ i \in Ids |-> IF i <= n THEN "up" ELSE "none" ]
          /\ spawn = [ i \in Ids |->
                       IF i <= n
                       THEN [ pc |-> IF i \in W THEN "sleep" ELSE "done",
                              port |-> BasePort + i - 1,
                              startTime |-> IF i \in W THEN now - MaxWait ELSE 0,
                              own |-> "scale" ]
                       ELSE IdleSpawn ]
    /\ rem = {}
    /\ termCalls = {}
    /\ hc = [ s \in Rounds |-> IdleRound ]
    /\ timers = TRUE
    /\ init = "ready"
    /\ sweep = {}
    /\ shutPc = "running"
    /\ shutSeen = << >>
    /\ pullPolicy = "missing"
    /\ pulled = "ok"
    /\ asg = AsgOff
    /\ req = [ r \in Reqs |-> NewReq ]

NextSelect ==
    \/ ScaleDown \/ Shutdown \/ RemoveStep
    \/ HealthCheckStart(1)
    \/ \E i \in Ids : HealthProbeOk(1, i) \/ HealthProbeFail(1, i)
    \/ \E k \in Ids : WarmSleepDone(k)
    \/ \E r \in 1..SelectReqs : Dispatch(r)

SpecSelect == InitSelect /\ [][NextSelect]_vars


\* C35: a request is only ever dispatched to an instance that is in the
\* pool and on which removeContainer has not been called, and an instance
\* is out of the pool from the step in which removeContainer is called on
\* it (by scale-down, eviction, a warm-up that gave up, or shutdown).
C35_NeverSelectsTerminated ==
    [][ /\ \A r \in Reqs :
              (Dispatched(r) /\ req'[r].w # 0) =>
                  /\ InPoolOf(instances, req'[r].w)
                  /\ req'[r].w \notin termCalls
        /\ \A i \in termCalls' : ~InPoolOf(instances', i) ]_vars

\* request 1 went to a warming instance that the prober had found healthy,
\* the warm-up loop then gave up on it, the other instance was evicted,
\* and request 2 found the pool empty
C35_Witness ==
    /\ req[1].w # 0 /\ req[1].w \in termCalls
    /\ \E t \in rem : t.own = "warmup" /\ t.id = req[1].w
    /\ \E t \in rem : t.own = "evict"
    /\ req[2].code = 503 /\ instances = << >>
    /\ shutPc = "running"


\* the sweep's `docker rm -f` removes the container of instance i in this step
Swept(i) ==
    /\ init = "sweeping" /\ i \in sweep /\ i \notin sweep'
    /\ container[i] # "gone" /\ container'[i] = "gone"

\* C36: cleanupOrphanedContainers() never force-removes the container of
\* an instance that is in the pool, however the sweep interleaves with the
\* autoscaler ticks that the constructor's timer fires.
C36_SweepSparesPool ==
    [][ \A i \in Ids : Swept(i) => ~InPoolOf(instances, i) ]_vars


\* Shutdown at any moment of start-up and growth: SIGINT or SIGTERM while
\* initialize() or an autoscaler tick has a spawn pending; `docker stop`
\* and `docker rm` succeed.
NextHalt ==
    \/ InitStep \/ SpawnStep \/ ScaleUp \/ Shutdown
    \/ \E t \in rem : RemStopOk(t) \/ RemRmOk(t)

SpecHalt == Init /\ [][NextHalt]_vars

\* C37: once shutdown() has been called no instance is pushed into the
\* pool, and when shutdown() has completed every container that runs has
\* had removeContainer called on it, also when a spawn was pending at the
\* moment of the call.
C37_ShutdownIsFinal ==
    [][ /\ shutPc # "running" =>
              \A i \in Ids : InPoolOf(instances', i) => InPoolOf(instances, i)
        /\ shutPc' = "done" =>
              \A i \in Ids : container'[i] = "up" => i \in termCalls' ]_vars


(* -------------------- warm-up against removal -------------------------- *)
\* `docker inspect` is a child process: the daemon reads the container's
\* state while the process runs, and the promise resolves when the process
\* has closed.  InspectRead is the daemon answering "running", InspectLate
\* the promise resolving with that answer, whatever `docker stop` or
\* `docker rm` did to the container in between.
InspectRead(k) ==
    /\ Alive /\ spawn[k].pc = "inspect" /\ container[k] = "up"
    /\ spawn' = [ spawn EXCEPT ![k].pc = "inspected" ]
    /\ UNCHANGED << now, nextPort, issued, instances, inst, container, rem,
                    termCalls, hc, timers, init, sweep, shutPc, shutSeen,
                    pullPolicy, pulled, asg, req >>

InspectLate(k) ==
    /\ Alive /\ spawn[k].pc = "inspected"
    /\ inst' = [ inst EXCEPT ![k].status = "running" ]
    /\ spawn' = [ spawn EXCEPT ![k].pc = "probe" ]
    /\ UNCHANGED << now, nextPort, issued, instances, container, rem,
                    termCalls, hc, timers, init, sweep, shutPc, shutSeen,
                    pullPolicy, pulled, asg, req >>

\* A controller that has run for ProbeTicks clock steps, with n instances
\* of which those in H answered the last prober round and those in W have
\* just been created and entered the warm-up loop; then the warm-up loops,
\* prober rounds with their evictions, scale-down and shutdown, with the
\* removals they start.
InitStatus ==
    /\ now = ProbeTicks * ClockStep
    /\ \E n \in 1..MaxInstances : \E H \in SUBSET (1..n) : \E W \in SUBSET (1..n) :
          /\ nextPort = BasePort + n
          /\ issued = [ k \in 1..n |-> BasePort + k - 1 ]
          /\ instances = [ k \in 1..n |-> k ]
          /\ inst = [ i \in Ids |->
                      IF i <= n
                      THEN IF i \in W THEN NewInstance(BasePort + i - 1)
                           ELSE [ port |-> BasePort + i - 1,
                                  lastHealth |-> IF i \in H THEN now ELSE 0,
                                  isHealthy |-> i \in H, activeRequests |-> 0,
                                  totalRequests |-> 0, lastRequestTime |-> 0,
                                  responseTime |-> 0, status |-> "running" ]
                      ELSE NoInstance ]
          /\ container = [ i \in Ids |-> IF i <= n THEN "up" ELSE "none" ]
          /\ spawn = [ i \in Ids |->
                       IF i <= n
                       THEN [ pc |-> IF i \in W THEN "inspect" ELSE "done",
                              port |-> BasePort + i - 1,
                              startTime |-> IF i \in W THEN now ELSE 0,
                              own |-> "scale" ]
                       ELSE IdleSpawn ]
    /\ rem = {}
    /\ termCalls = {}
    /\ hc = [ s \in Rounds |-> IdleRound ]
    /\ timers = TRUE
    /\ init = "ready"
    /\ sweep = {}
    /\ shutPc = "running"
    /\ shutSeen = << >>
    /\ pullPolicy = "missing"
    /\ pulled = "ok"
    /\ asg = AsgOff
    /\ req = [ r \in Reqs |-> NewReq ]

NextStatus ==
    \/ ScaleDown \/ Shutdown \/ RemoveStep
    \/ HealthCheckStart(1)
    \/ Tick(ProbeTicks + 1)
    \/ \E i \in Ids : HealthProbeOk(1, i) \/ HealthProbeFail(1, i)
    \/ \E k \in Ids : \/ InspectRead(k) \/ InspectLate(k) \/ InspectDone(k)
                      \/ WarmProbeOk(k) \/ WarmProbeFail(k)
                      \/ WarmSleepDone(k)

SpecStatus == InitStatus /\ [][NextStatus]_vars

StatusRank(s) ==
    CASE s = "starting" -> 1
      [] s = "running"  -> 2
      [] s = "stopping" -> 3
      [] s = "stopped"  -> 4
      [] OTHER          -> 0

\* C38: an instance's status only moves forward along starting, running,
\* stopping, stopped: no step takes a stopping or stopped instance back to
\* starting or running, or a stopped one back to stopping, however the
\* warm-up loop interleaves with the removeContainer calls on the instance.
C38_StatusMovesForward ==
    [][ \A i \in Ids :
            StatusRank(inst[i].status) <= StatusRank(inst'[i].status) ]_vars


\* the spawnInstance() calls of autoScale() that have not returned
ScaleSpawning ==
    { k \in Ids : /\ spawn[k].own = "scale"
                  /\ spawn[k].pc \in {"creating", "inspect", "probe", "sleep",
                                      "removing"} }

\* C39: at most one spawnInstance() call made by autoScale() is in progress
\* at any time: a tick that fires while an earlier tick's instance is being
\* created or warmed up starts no other.
C39_OneScaleSpawn == Cardinality(ScaleSpawning) <= 1

=============================================================================
